---- MODULE Spec2Model ----
(***************************************************************************)
(* PREP-SHOT: solve orchestration (prepshot/solver.py), the head-iteration *)
(* fixed-point loop (prepshot/_model/head_iteration.py) and the vintage    *)
(* capacity accounting (prepshot/_model/investment.py), the construction   *)
(* of the constraint families (prepshot/_model/*.py), the routing of the   *)
(* upstream outflow (AddHydropowerConstraints.inflow_rule) and get_solver. *)
(*                                                                         *)
(* Heads, errors and coefficients are exact rationals <<n, d>> with d > 0  *)
(* in lowest terms; a missing value (pandas NaN) is <<0, 0>>.              *)
(***************************************************************************)
EXTENDS Integers, Sequences, FiniteSets, TLC

(***************************************************************************)
(* Bounds of the model.                                                    *)
(***************************************************************************)
NumHours == 1
MaxIter == 2
YearSpan == 2
MaxLifetime == 3
MaxHour == 2
MaxPeriods == 3
MaxDelay == 5

(***************************************************************************)
(* Rational arithmetic with NaN, as numpy/pandas floats behave: NaN        *)
(* propagates through arithmetic and every comparison with NaN is false.   *)
(***************************************************************************)
AbsInt(x) == IF x < 0 THEN -x ELSE x

RECURSIVE Gcd(_, _)
Gcd(a, b) == IF b = 0 THEN a ELSE Gcd(b, a % b)

NaN == <<0, 0>>

IsNaN(x) == x[2] = 0

Rat(n, d) ==
    IF d = 0 THEN NaN
    ELSE LET g == Gcd(AbsInt(n), AbsInt(d))
             sg == IF d < 0 THEN -1 ELSE 1
         IN  <<(sg * n) \div g, (sg * d) \div g>>

RInt(n) == <<n, 1>>

RAdd(x, y) ==
    IF IsNaN(x) \/ IsNaN(y) THEN NaN
    ELSE Rat(x[1] * y[2] + y[1] * x[2], x[2] * y[2])

RNeg(x) == IF IsNaN(x) THEN NaN ELSE <<-x[1], x[2]>>

RSub(x, y) == RAdd(x, RNeg(y))

RMul(x, y) ==
    IF IsNaN(x) \/ IsNaN(y) THEN NaN
    ELSE Rat(x[1] * y[1], x[2] * y[2])

RDiv(x, y) ==
    IF IsNaN(x) \/ IsNaN(y) THEN NaN
    ELSE Rat(x[1] * y[2], x[2] * y[1])

RAbs(x) == IF IsNaN(x) THEN NaN ELSE <<AbsInt(x[1]), x[2]>>

RLess(x, y) ==
    /\ ~IsNaN(x)
    /\ ~IsNaN(y)
    /\ x[1] * y[2] < y[1] * x[2]

RLeq(x, y) ==
    /\ ~IsNaN(x)
    /\ ~IsNaN(y)
    /\ x[1] * y[2] <= y[1] * x[2]

\* numpy.maximum propagates NaN
RMax(x, y) ==
    IF IsNaN(x) \/ IsNaN(y) THEN NaN
    ELSE IF RLess(x, y) THEN y ELSE x

RECURSIVE RSumSeq(_)
RSumSeq(s) == IF s = <<>> THEN RInt(0) ELSE RAdd(Head(s), RSumSeq(Tail(s)))

\* pandas mean with skipna=True: the mean of the non-missing entries,
\* NaN when there is none
NanMean(s) ==
    LET kept == SelectSeq(s, LAMBDA x : ~IsNaN(x))
    IN  IF kept = <<>> THEN NaN
        ELSE RDiv(RSumSeq(kept), RInt(Len(kept)))

(***************************************************************************)
(* Index sets of the built model: params['stcd'], params['year'],          *)
(* params['month'], params['hour'] and hour_p = [0] + hour.                *)
(***************************************************************************)
stations == <<1, 2>>

year == <<2020>>

month == <<1>>

hour == [i \in 1..NumHours |-> i]

hour_p == <<0>> \o hour

SeqRange(s) == {s[i] : i \in 1..Len(s)}

\* pd.MultiIndex.from_product([year, month, hour]): the columns of a head
\* frame, year-major
Columns ==
    [i \in 1..(Len(year) * Len(month) * Len(hour)) |->
        <<year[((i - 1) \div (Len(month) * Len(hour))) + 1],
          month[(((i - 1) \div Len(hour)) % Len(month)) + 1],
          hour[((i - 1) % Len(hour)) + 1]>>]

ColumnSet == SeqRange(Columns)

\* model.station * model.hour * model.month * model.year, station-major
station_hour_month_year_tuples ==
    [i \in 1..(Len(stations) * Len(hour) * Len(month) * Len(year)) |->
        <<stations[((i - 1) \div (Len(hour) * Len(month) * Len(year))) + 1],
          hour[(((i - 1) \div (Len(month) * Len(year))) % Len(hour)) + 1],
          month[(((i - 1) \div Len(year)) % Len(month)) + 1],
          year[((i - 1) % Len(year)) + 1]>>]

TupleSet == SeqRange(station_hour_month_year_tuples)

(***************************************************************************)
(* Input data: reservoir characteristics and rating curves.                *)
(***************************************************************************)
\* params['reservoir_characteristics']['head', s]
StaticHead(s) == RInt(s)

\* params['reservoir_characteristics']['coeff', s]
Coeff(s) == RInt(8 + s)

\* the factor 1e-3 of the hydropower-output coefficient
Milli == Rat(1, 1000)

\* params['reservoir_tailrace_level_discharge_function'] rows of a station:
\* <<Q, Z>>
reservoir_tailrace_level_discharge_function ==
    [name \in SeqRange(stations) |-> <<<<0, 0>>, <<1, 1>>, <<3, 5>>>>]

\* params['reservoir_forebay_level_volume_function'] rows of a station:
\* <<V, Z>>
reservoir_forebay_level_volume_function ==
    [name \in SeqRange(stations) |-> <<<<0, 0>>, <<1, 2>>, <<2, 3>>>>]

\* numpy.searchsorted(x, q) (side='left'), 0-based: the number of abscissae
\* strictly below q
SearchSorted(table, q) == Cardinality({i \in 1..Len(table) : table[i][1] < q})

ClipInt(v, lo, hi) == IF v < lo THEN lo ELSE IF v > hi THEN hi ELSE v

\* the same with the query clamped to the range of the table
Interp1d_clamped(table, q) ==
    LET qc == ClipInt(q, table[1][1], table[Len(table)][1])
        hiIdx == ClipInt(SearchSorted(table, qc), 1, Len(table) - 1)
        lo == table[hiIdx]
        hi == table[hiIdx + 1]
        slope == Rat(hi[2] - lo[2], hi[1] - lo[1])
    IN  RAdd(RMul(slope, RInt(qc - lo[1])), RInt(lo[2]))

\* scipy interp1d(x, z, fill_value='extrapolate') evaluated at q: linear on
\* the segment that searchsorted selects, clipped to the outer segments
Interp1d(table, q) ==
    LET hiIdx == ClipInt(SearchSorted(table, q), 1, Len(table) - 1)
        lo == table[hiIdx]
        hi == table[hiIdx + 1]
        slope == Rat(hi[2] - lo[2], hi[1] - lo[1])
    IN  RAdd(RMul(slope, RInt(q - lo[1])), RInt(lo[2]))

\* the rows of station `name` are selected, then interpolated
interpolate_z_by_q_or_s(name, qs, zqv) == Interp1d(zqv[name], qs)

\* values the solver may report for a flow / a reservoir storage
FlowValues == {0, 3}

StorageValues == {1}

TerminationStatusCodes == {"OPTIMAL", "INFEASIBLE"}

ErrorThresholds == {Rat(1, 1000), Rat(1, 2)}

IterationNumbers == (-1)..MaxIter

(***************************************************************************)
(* State.                                                                  *)
(***************************************************************************)
VARIABLES
    pc,               \* position of the run
    caller,           \* "solve_model" or "run_model_iteration" (direct call)
    params,           \* isinflow, iteration_number, error_threshold
    max_iterations,   \* arguments of run_model_iteration
    error_threshold,
    iteration,        \* locals of run_model_iteration
    alpha,
    error,
    errors,
    old_waterhead,
    new_waterhead,
    h_new,            \* the heads computed from the latest solution (local h)
    coef_i,           \* position in the coefficient loop
    output_calc_cons, \* the hydropower-output constraints of the built model
    model_rest,       \* everything else the built model holds
    status,           \* TerminationStatus of the latest optimize call
    optimize_calls,   \* number of optimize calls made
    all_optimal,      \* every optimize call so far ended OPTIMAL
    head_updates,     \* number of damped updates applied
    log,              \* warnings logged
    result,           \* "None" while running, then "True" or "False"
    inv_pc,           \* position of AddInvestmentConstraints.__init__
    inv_params,       \* params['year'], params['lifetime']
    inv_i,            \* position in the tuples of the family being built
    remaining_technology, \* model.remaining_technology, as built so far
    cap_existing,     \* model.cap_existing, as built so far
    bparams,          \* model.params of the model under construction
    bmodel,           \* attributes set on the model so far
    constructed,      \* the builders whose __init__ has returned
    raised,           \* "None", or the exception that ended construction
    in_pc,            \* position of inflow_rule
    in_params,        \* params['hour'], params['dt'], wdt_dict.get(s)
    in_h,             \* argument h of inflow_rule
    in_i,             \* position in up_streams
    in_t,             \* local t of inflow_rule
    in_reads,         \* the period indices model.outflow was read at
    gs_pc,            \* position of get_solver
    gs_params,        \* params given to get_solver
    gs_library,       \* what autoload_library / load_library will answer
    gs_result,        \* "None", the returned module, or the exception
    library_loaded,   \* the solver library has been loaded
    ut_pc,            \* the function of prepshot/utils.py being called
    ut_args,          \* its arguments
    ut_result         \* "None", what it returned, or the exception

vars == <<pc, caller, params, max_iterations, error_threshold, iteration,
          alpha, error, errors, old_waterhead, new_waterhead, h_new, coef_i,
          output_calc_cons, model_rest, status, optimize_calls, all_optimal,
          head_updates, log, result, inv_pc, inv_params, inv_i,
          remaining_technology, cap_existing, bparams, bmodel, constructed,
          raised,
          in_pc, in_params, in_h, in_i, in_t, in_reads, gs_pc, gs_params,
          gs_library, gs_result, library_loaded, ut_pc, ut_args, ut_result>>

inv_vars == <<inv_pc, inv_params, inv_i, remaining_technology, cap_existing>>

head_vars == <<pc, caller, params, max_iterations, error_threshold, iteration,
               alpha, error, errors, old_waterhead, new_waterhead, h_new,
               coef_i, output_calc_cons, model_rest, status, optimize_calls,
               all_optimal, head_updates, log, result>>

build_vars == <<bparams, bmodel, constructed, raised>>

inflow_vars == <<in_pc, in_params, in_h, in_i, in_t, in_reads>>

solver_vars == <<gs_pc, gs_params, gs_library, gs_result, library_loaded>>

utils_vars == <<ut_pc, ut_args, ut_result>>

run_vars == <<iteration, alpha, error, errors, old_waterhead, new_waterhead,
              h_new, coef_i>>

NaNFrame == [s \in SeqRange(stations) |-> [c \in ColumnSet |-> NaN]]

\* AddHydropowerConstraints.output_calc_rule:
\* output - genflow * efficiency * 1e-3 == 0, the head is not applied yet
output_calc_rule(s, h, m, y) ==
    [output |-> RInt(1),
     genflow |-> RNeg(RMul(Coeff(s), Milli)),
     sense |-> "Eq",
     rhs |-> RInt(0)]

\* params['reservoir_characteristics']['N_max', s]
N_max(s) == RInt(100 * s)

\* AddHydropowerConstraints.output_up_bound_rule: output - N_max <= 0
output_up_bound_rule(s, h, m, y) ==
    [output |-> RInt(1),
     sense |-> "Leq",
     rhs |-> N_max(s)]

\* the state of a built model before solve_model is called, for the given
\* sets of configurations
SolveInit(isinflows, iteration_numbers, error_thresholds) ==
    /\ pc = "start"
    /\ caller = "None"
    /\ params \in [isinflow : isinflows,
                   iteration_number : iteration_numbers,
                   error_threshold : error_thresholds]
    /\ max_iterations = 0
    /\ error_threshold = NaN
    /\ iteration = 0
    /\ alpha = NaN
    /\ error = NaN
    /\ errors = <<>>
    /\ old_waterhead = NaNFrame
    /\ new_waterhead = NaNFrame
    /\ h_new = NaNFrame
    /\ coef_i = 0
    /\ output_calc_cons =
           [t \in TupleSet |-> output_calc_rule(t[1], t[2], t[3], t[4])]
    /\ model_rest =
           [output_up_bound_cons |->
                [t \in TupleSet |-> output_up_bound_rule(t[1], t[2], t[3], t[4])],
            objective |-> [sense |-> "Minimize", cost |-> RInt(1)]]
    /\ status = "OPTIMIZE_NOT_CALLED"
    /\ optimize_calls = 0
    /\ all_optimal = TRUE
    /\ head_updates = 0
    /\ log = {}
    /\ result = "None"

\* the investment families are not under construction
InvestmentIdle ==
    /\ inv_pc = "idle"
    /\ inv_params = [year |-> <<>>, lifetime |-> <<>>]
    /\ inv_i = 0
    /\ remaining_technology = <<>>
    /\ cap_existing = <<>>

\* no model is under construction
BuildIdle ==
    /\ bparams = <<>>
    /\ bmodel = <<>>
    /\ constructed = {}
    /\ raised = "None"

\* inflow_rule is not running
InflowIdle ==
    /\ in_pc = "idle"
    /\ in_params = <<>>
    /\ in_h = 0
    /\ in_i = 0
    /\ in_t = 0
    /\ in_reads = <<>>

\* get_solver is not running
SolverIdle ==
    /\ gs_pc = "idle"
    /\ gs_params = <<>>
    /\ gs_library = <<>>
    /\ gs_result = "None"
    /\ library_loaded = FALSE

\* no function of prepshot/utils.py is being called
UtilsIdle ==
    /\ ut_pc = "idle"
    /\ ut_args = <<>>
    /\ ut_result = [raised |-> "None", value |-> NaN]

Init ==
    /\ SolveInit(BOOLEAN, IterationNumbers, ErrorThresholds)
    /\ InvestmentIdle
    /\ BuildIdle
    /\ InflowIdle
    /\ SolverIdle
    /\ UtilsIdle

(***************************************************************************)
(* prepshot/solver.py : solve_model                                        *)
(***************************************************************************)
BoolStr(b) == IF b THEN "True" ELSE "False"

solve_model ==
    /\ pc = "start"
    /\ caller' = "solve_model"
    /\ IF params.isinflow
       THEN /\ max_iterations' = params.iteration_number
            /\ error_threshold' = params.error_threshold
            /\ pc' = "run"
            /\ UNCHANGED <<status, optimize_calls, all_optimal, result>>
       ELSE \E st \in TerminationStatusCodes :
            /\ status' = st
            /\ optimize_calls' = optimize_calls + 1
            /\ all_optimal' = (all_optimal /\ st = "OPTIMAL")
            /\ result' = BoolStr(st = "OPTIMAL")
            /\ pc' = "done"
            /\ UNCHANGED <<max_iterations, error_threshold>>
    /\ UNCHANGED <<params, run_vars, output_calc_cons, model_rest,
                   head_updates, log>>
    /\ UNCHANGED <<inv_vars, build_vars, inflow_vars, solver_vars, utils_vars>>

(***************************************************************************)
(* prepshot/_model/head_iteration.py                                       *)
(***************************************************************************)
\* run_model_iteration called by a client other than solve_model, on a model
\* built with hydrology enabled
run_model_iteration_call ==
    /\ pc = "start"
    /\ params.isinflow
    /\ caller' = "run_model_iteration"
    /\ \E mi \in IterationNumbers :
           max_iterations' = mi
    /\ error_threshold' = params.error_threshold
    /\ pc' = "run"
    /\ UNCHANGED <<params, run_vars, output_calc_cons, model_rest, status,
                   optimize_calls, all_optimal, head_updates, log, result>>
    /\ UNCHANGED <<inv_vars, build_vars, inflow_vars, solver_vars, utils_vars>>

\* initialize_waterhead: the old frame holds the static head of each station
\* in every column, the new frame is a copy of the still empty frame
initialize_waterhead ==
    [old_waterhead |->
         [s \in SeqRange(stations) |-> [c \in ColumnSet |-> StaticHead(s)]],
     new_waterhead |-> NaNFrame]

\* run_model_iteration up to the loop: lines 173-182
run_model_iteration_begin ==
    /\ pc = "run"
    /\ old_waterhead' = initialize_waterhead.old_waterhead
    /\ new_waterhead' = initialize_waterhead.new_waterhead
    /\ error' = RInt(1)
    /\ errors' = <<>>
    /\ iteration' = 0
    /\ pc' = "loop"
    /\ UNCHANGED <<caller, params, max_iterations, error_threshold, alpha,
                   h_new, coef_i, output_calc_cons, model_rest, status,
                   optimize_calls, all_optimal, head_updates, log, result>>
    /\ UNCHANGED <<inv_vars, build_vars, inflow_vars, solver_vars, utils_vars>>

\* v in range(start, stop)
InRange_inclusive(v, start, stop) == start <= v /\ v <= stop

InRange(v, start, stop) == start <= v /\ v < stop

\* for iteration in range(1, max_iterations+1), and what follows the loop
for_iteration ==
    /\ pc = "loop"
    /\ IF InRange(iteration + 1, 1, max_iterations + 1)
       THEN /\ iteration' = iteration + 1
            /\ alpha' = Rat(1, iteration + 1)
            /\ coef_i' = 1
            /\ pc' = "setcoef"
            /\ UNCHANGED <<log, result>>
       ELSE /\ log' = log \cup {"Failed to converge"}
            /\ result' = "True"
            /\ pc' = "done"
            /\ UNCHANGED <<iteration, alpha, coef_i>>
    /\ UNCHANGED <<caller, params, max_iterations, error_threshold, error,
                   errors, old_waterhead, new_waterhead, h_new,
                   output_calc_cons, model_rest, status, optimize_calls,
                   all_optimal, head_updates>>
    /\ UNCHANGED <<inv_vars, build_vars, inflow_vars, solver_vars, utils_vars>>

\* - efficiency * 1e-3 * old_waterhead.loc[s, idx[y, m, h]]
HeadCoefficient_unheaded(efficiency, head) == RMul(RNeg(efficiency), Milli)

HeadCoefficient(efficiency, head) == RMul(RMul(RNeg(efficiency), Milli), head)

\* model.set_normalized_coefficient(constraint, variable, value)
set_normalized_coefficient_output(cons, t, variable, value) ==
    [cons EXCEPT ![t] = [@ EXCEPT !["output"] = value]]

set_normalized_coefficient(cons, t, variable, value) ==
    [cons EXCEPT ![t] = [@ EXCEPT ![variable] = value]]

\* one pass of the loop over model.station_hour_month_year_tuples
process_model_solution_set_coefficient ==
    /\ pc = "setcoef"
    /\ LET t == station_hour_month_year_tuples[coef_i]
           s == t[1]
           h == t[2]
           m == t[3]
           y == t[4]
           efficiency == Coeff(s)
       IN  output_calc_cons' =
               set_normalized_coefficient(
                   output_calc_cons, t, "genflow",
                   HeadCoefficient(efficiency, old_waterhead[s][<<y, m, h>>]))
    /\ coef_i' = coef_i + 1
    /\ pc' = IF coef_i = Len(station_hour_month_year_tuples)
             THEN "optimize" ELSE "setcoef"
    /\ UNCHANGED <<caller, params, max_iterations, error_threshold, iteration,
                   alpha, error, errors, old_waterhead, new_waterhead, h_new,
                   model_rest, status, optimize_calls, all_optimal,
                   head_updates, log, result>>
    /\ UNCHANGED <<inv_vars, build_vars, inflow_vars, solver_vars, utils_vars>>

\* keys of model.storage_reservoir: station x hour_p x month x year
StorageTupleSet ==
    {<<stations[i], hour_p[j], month[k], year[l]>> :
        i \in 1..Len(stations), j \in 1..Len(hour_p),
        k \in 1..Len(month), l \in 1..Len(year)}

HourIndex(h) == CHOOSE i \in 1..Len(hour) : hour[i] = h

MinInt(a, b) == IF a < b THEN a ELSE b

LastOf(seq) == seq[Len(seq)]

\* lines 123-144 for one station: the heads of every column from the
\* outflow and reservoir storage of the solution
StationHead(stcd, outflow, storage_reservoir) ==
    [c \in ColumnSet |->
        LET y == c[1]
            m == c[2]
            i == HourIndex(c[3])
            tail == interpolate_z_by_q_or_s(
                        stcd, outflow[<<stcd, c[3], m, y>>],
                        reservoir_tailrace_level_discharge_function)
            storage == [j \in 1..Len(hour_p) |->
                           interpolate_z_by_q_or_s(
                               stcd, storage_reservoir[<<stcd, hour_p[j], m, y>>],
                               reservoir_forebay_level_volume_function)]
            \* storage[:, :, :hour[-1]] and storage[:, :, 1:]
            upto == SubSeq(storage, 1, MinInt(LastOf(hour), Len(storage)))
            from == Tail(storage)
            fore == RDiv(RAdd(upto[i], from[i]), RInt(2))
        IN  RMax(RSub(fore, tail), RInt(0))]

\* the rest of process_model_solution (lines 112-145) and the check of its
\* result in run_model_iteration (lines 190-191)
\* if status != poi.TerminationStatusCode.OPTIMAL: return False
NotOptimal_never(st) == FALSE

NotOptimal(st) == st # "OPTIMAL"

process_model_solution_optimize ==
    /\ pc = "optimize"
    /\ \E st \in TerminationStatusCodes :
        /\ status' = st
        /\ optimize_calls' = optimize_calls + 1
        /\ all_optimal' = (all_optimal /\ st = "OPTIMAL")
        /\ IF NotOptimal(st)
           THEN /\ result' = "False"
                /\ pc' = "done"
                /\ UNCHANGED <<new_waterhead, h_new>>
           ELSE IF params.iteration_number <= 1
           THEN \* new_waterhead = old_waterhead rebinds the local name only
                /\ pc' = "evaluate"
                /\ UNCHANGED <<new_waterhead, h_new, result>>
           ELSE \E outflow \in [TupleSet -> FlowValues],
                   storage_reservoir \in [StorageTupleSet -> StorageValues] :
                /\ h_new' = [stcd \in SeqRange(stations) |->
                                StationHead(stcd, outflow, storage_reservoir)]
                /\ new_waterhead' = h_new'
                /\ pc' = "evaluate"
                /\ UNCHANGED result
    /\ UNCHANGED <<caller, params, max_iterations, error_threshold, iteration,
                   alpha, error, errors, old_waterhead, coef_i,
                   output_calc_cons, model_rest, head_updates, log>>
    /\ UNCHANGED <<inv_vars, build_vars, inflow_vars, solver_vars, utils_vars>>

\* new_waterhead[new_waterhead <= 0] = 1, in place
GuardNonPositive(frame) ==
    [s \in DOMAIN frame |->
        [c \in DOMAIN frame[s] |->
            IF RLeq(frame[s][c], RInt(0)) THEN RInt(1) ELSE frame[s][c]]]

RowSeq(row) == [i \in 1..Len(Columns) |-> row[Columns[i]]]

\* (abs(new - old) / new).mean(axis='columns').mean()
MeanRelativeError(old, new) ==
    NanMean([i \in 1..Len(stations) |->
        NanMean(RowSeq([c \in ColumnSet |->
            RDiv(RAbs(RSub(new[stations[i]][c], old[stations[i]][c])),
                 new[stations[i]][c])]))])

\* compute_error: the frame it was given is changed in place, so the caller
\* sees the guarded frame
compute_error(old, new) ==
    LET guarded == GuardNonPositive(new)
    IN  [new_waterhead |-> guarded,
         error |-> MeanRelativeError(old, guarded)]

\* error < error_threshold
Converged_leq(err, threshold) == RLeq(err, threshold)

Converged(err, threshold) == RLess(err, threshold)

\* old_waterhead += alpha * (new_waterhead - old_waterhead)
DampedUpdate(old, new, a) ==
    [s \in DOMAIN old |->
        [c \in DOMAIN old[s] |->
            RAdd(old[s][c], RMul(a, RSub(new[s][c], old[s][c])))]]

\* run_model_iteration lines 193-208
calculate_error ==
    /\ pc = "evaluate"
    /\ LET ce == compute_error(old_waterhead, new_waterhead)
           err == IF max_iterations <= 1 THEN RInt(0) ELSE ce.error
           new == IF max_iterations <= 1 THEN new_waterhead
                  ELSE ce.new_waterhead
       IN  /\ log' = IF max_iterations <= 1
                     THEN log \cup {"Maximum iteration is set to 1"}
                     ELSE log
           /\ error' = err
           /\ new_waterhead' = new
           /\ errors' = Append(errors, err)
           /\ IF Converged(err, error_threshold)
              THEN /\ result' = "True"
                   /\ pc' = "done"
                   /\ UNCHANGED <<old_waterhead, head_updates>>
              ELSE /\ old_waterhead' = DampedUpdate(old_waterhead, new, alpha)
                   /\ head_updates' = head_updates + 1
                   /\ pc' = "loop"
                   /\ UNCHANGED result
    /\ UNCHANGED <<caller, params, max_iterations, error_threshold, iteration,
                   alpha, h_new, coef_i, output_calc_cons, model_rest, status,
                   optimize_calls, all_optimal>>
    /\ UNCHANGED <<inv_vars, build_vars, inflow_vars, solver_vars, utils_vars>>

Next ==
    \/ solve_model
    \/ run_model_iteration_call
    \/ run_model_iteration_begin
    \/ for_iteration
    \/ process_model_solution_set_coefficient
    \/ process_model_solution_optimize
    \/ calculate_error

Spec == Init /\ [][Next]_vars

TypeOK ==
    /\ pc \in {"start", "run", "loop", "setcoef", "optimize", "evaluate", "done"}
    /\ result \in {"None", "True", "False"}
    /\ iteration \in 0..MaxIter

(***************************************************************************)
(* Properties of the head iteration and of solve_model.                    *)
(***************************************************************************)
HydroRun == caller # "None" /\ params.isinflow

\* C1: in run_model_iteration, once an optimize call ends with a status other
\* than OPTIMAL the run has returned False: the only errors computed and
\* head updates applied are those of the earlier iterations, and the failed
\* call stays the last optimize call.
C1_NonOptimalReturnsFalse ==
    (HydroRun /\ status \notin {"OPTIMAL", "OPTIMIZE_NOT_CALLED"}) =>
        /\ pc = "done"
        /\ result = "False"
        /\ optimize_calls = iteration
        /\ Len(errors) = optimize_calls - 1
        /\ head_updates = optimize_calls - 1

C1_Witness ==
    /\ HydroRun
    /\ status = "INFEASIBLE"
    /\ optimize_calls = 2
    /\ result = "False"

StaticCoefficients ==
    \A t \in TupleSet :
        output_calc_cons[t].genflow =
            RNeg(RMul(RMul(Coeff(t[1]), Milli), StaticHead(t[1])))

\* C2: when max_iterations <= 1 (0 and negative values included) a run whose
\* solves are all OPTIMAL makes exactly one optimize call with the static
\* head, sets the error to 0 and returns True without any head update.
C2_SingleFixedHeadSolve ==
    (HydroRun /\ pc = "done" /\ max_iterations <= 1 /\ all_optimal) =>
        /\ optimize_calls = 1
        /\ StaticCoefficients
        /\ error = RInt(0)
        /\ result = "True"
        /\ head_updates = 0

\* C3: with max_iterations > 1 the run returns True at the first iteration
\* whose error is strictly below the threshold (and not earlier): that
\* iteration's optimize call is the last one and no head update follows it.
C3_ReturnsAtFirstConvergedIteration ==
    (HydroRun /\ max_iterations > 1) =>
        /\ \A i \in 1..Len(errors) :
               RLess(errors[i], error_threshold) =>
                   /\ i = Len(errors)
                   /\ pc = "done"
                   /\ result = "True"
                   /\ optimize_calls = i
                   /\ head_updates = i - 1
        /\ (pc = "done" /\ result = "True" /\ optimize_calls < max_iterations) =>
               /\ Len(errors) = optimize_calls
               /\ RLess(errors[Len(errors)], error_threshold)

C3_Witness ==
    /\ HydroRun
    /\ pc = "done"
    /\ max_iterations = 2
    /\ Len(errors) = 1
    /\ RLess(errors[1], error_threshold)
    /\ result = "True"
    /\ optimize_calls = 1
    /\ head_updates = 0

NoErrorBelowThreshold ==
    \A i \in 1..Len(errors) : ~RLess(errors[i], error_threshold)

C5_DampedUpdateTowardsNewHead ==
    [][(pc = "evaluate" /\ pc' = "loop") =>
           old_waterhead' =
               DampedUpdate(old_waterhead, h_new, Rat(1, iteration))]_vars

\* the error as the claim C6 states it: only the divisor is guarded
GuardedDivisor(x) == IF RLess(RInt(0), x) THEN x ELSE RInt(1)

MeanAbsRelativeDifference(old, new) ==
    NanMean([i \in 1..Len(stations) |->
        NanMean(RowSeq([c \in ColumnSet |->
            RDiv(RAbs(RSub(new[stations[i]][c], old[stations[i]][c])),
                 GuardedDivisor(new[stations[i]][c]))]))])

\* C6: the error of an iteration is the mean over stations and periods of
\* |new_head - old_head| / d with d = new_head if new_head > 0, else 1.
C6_ErrorIsMeanRelativeDifference ==
    [][(pc = "evaluate" /\ pc' # "evaluate" /\ max_iterations > 1
          /\ params.iteration_number > 1) =>
           error' = MeanAbsRelativeDifference(old_waterhead, h_new)]_vars

\* C7: at every optimize call of the head iteration the genflow coefficient
\* of each hydropower-output constraint is -coeff(s) * 1e-3 * the current
\* head of (s, y, m, h).
C7_CoefficientsFollowHeadAtOptimize ==
    pc = "optimize" =>
        \A t \in TupleSet :
            output_calc_cons[t].genflow =
                RNeg(RMul(RMul(Coeff(t[1]), Milli),
                          old_waterhead[t[1]][<<t[4], t[3], t[2]>>]))

C7_Witness ==
    /\ pc = "optimize"
    /\ iteration = 2
    /\ \E s \in SeqRange(stations), c \in ColumnSet :
           /\ ~IsNaN(old_waterhead[s][c])
           /\ old_waterhead[s][c] # StaticHead(s)
           /\ old_waterhead[s][c] # RInt(1)

\* C8: a step of the run changes nothing of the built model but the genflow
\* coefficient of hydropower-output constraints: the constraints and their
\* variables stay the same, as do all other coefficients, right-hand sides
\* and the objective.
C8_OnlyGenflowCoefficientChanges ==
    [][/\ model_rest' = model_rest
       /\ DOMAIN output_calc_cons' = DOMAIN output_calc_cons
       /\ \A t \in DOMAIN output_calc_cons :
              /\ DOMAIN output_calc_cons'[t] = DOMAIN output_calc_cons[t]
              /\ \A f \in DOMAIN output_calc_cons[t] \ {"genflow"} :
                     output_calc_cons'[t][f] = output_calc_cons[t][f]]_vars

C8_Witness ==
    /\ optimize_calls = 2
    /\ pc = "done"
    /\ \E t \in TupleSet :
           output_calc_cons[t].genflow #
               output_calc_rule(t[1], t[2], t[3], t[4]).genflow

\* C9: solve_model returns True exactly when the model was solved to
\* OPTIMAL: at least one optimize call was made and every optimize call
\* ended OPTIMAL; without hydrology exactly one optimize call is made.
C9_TrueIffSolvedOptimal ==
    (caller = "solve_model" /\ pc = "done") =>
        /\ (result = "True") <=> (optimize_calls >= 1 /\ all_optimal)
        /\ ~params.isinflow => optimize_calls = 1

(***************************************************************************)
(* prepshot/_model/investment.py : AddInvestmentConstraints                *)
(* An expression is kept symbolically, as the sequence of its terms.       *)
(***************************************************************************)
FirstYear == 2020

YearPool == FirstYear..(FirstYear + YearSpan)

zone == <<"z1", "z2">>

tech == <<"te1", "te2">>

Lifetimes == 1..MaxLifetime

\* the ascending sequence of the elements of a set of integers
RECURSIVE SortedSeq(_)
SortedSeq(S) ==
    IF S = {} THEN <<>>
    ELSE LET lo == CHOOSE x \in S : \A y \in S : x <= y
         IN  <<lo>> \o SortedSeq(S \ {lo})

\* poi.make_tupledict(model.year, model.zone, model.tech, ...): the keys in
\* the order the rule is applied to them
year_zone_tech_tuples(years) ==
    [i \in 1..(Len(years) * Len(zone) * Len(tech)) |->
        <<years[((i - 1) \div (Len(zone) * Len(tech))) + 1],
          zone[(((i - 1) \div Len(tech)) % Len(zone)) + 1],
          tech[((i - 1) % Len(tech)) + 1]>>]

\* list.index(y), 1-based
IndexOf(seq, y) ==
    CHOOSE i \in 1..Len(seq) : seq[i] = y /\ \A j \in 1..(i - 1) : seq[j] # y

\* tech_lifetime_rule: 0, or the sum of hcap[z, te, a] for a in
\* range(0, remaining_time)
tech_lifetime_rule(y, z, te) ==
    LET lifetime == inv_params.lifetime[<<te, y>>]
        service_time == y - inv_params.year[1]
        remaining_time == lifetime - service_time
    IN  IF remaining_time <= 0 THEN <<>>
        ELSE [k \in 1..remaining_time |-> <<"hcap", z, te, k - 1>>]

\* y - yy < lt[te, y]
WithinLifetime_inclusive(y, yy, lifetime) == y - yy <= lifetime

WithinLifetime(y, yy, lifetime) == y - yy < lifetime

\* remaining_capacity_rule: the new-build variables of the years up to y that
\* are within the lifetime, plus model.remaining_technology[y, z, te]
remaining_capacity_rule(y, z, te) ==
    LET years == inv_params.year
        lt == inv_params.lifetime
        upto == SubSeq(years, 1, IndexOf(years, y))
        kept == SelectSeq(upto, LAMBDA yy : WithinLifetime(y, yy, lt[<<te, y>>]))
    IN  [new_tech |-> [k \in 1..Len(kept) |-> <<"cap_newtech", kept[k], z, te>>],
         remaining_technology |-> remaining_technology[<<y, z, te>>]]

\* the state in which AddInvestmentConstraints.__init__ starts
InvestmentInit ==
    /\ inv_pc = "remaining_technology"
    /\ \E ys \in SUBSET YearPool :
           /\ ys # {}
           /\ \E lt \in [{<<te, y>> : te \in SeqRange(tech), y \in ys}
                              -> Lifetimes] :
                  inv_params = [year |-> SortedSeq(ys), lifetime |-> lt]
    /\ inv_i = 1
    /\ remaining_technology = <<>>
    /\ cap_existing = <<>>

\* model.remaining_technology = poi.make_tupledict(..., tech_lifetime_rule),
\* one key at a time
build_remaining_technology ==
    /\ inv_pc = "remaining_technology"
    /\ LET tuples == year_zone_tech_tuples(inv_params.year)
           t == tuples[inv_i]
       IN  /\ remaining_technology' =
                  remaining_technology @@ (t :> tech_lifetime_rule(t[1], t[2], t[3]))
           /\ IF inv_i = Len(tuples)
              THEN inv_pc' = "cap_existing" /\ inv_i' = 1
              ELSE inv_pc' = inv_pc /\ inv_i' = inv_i + 1
    /\ UNCHANGED <<inv_params, cap_existing>>
    /\ UNCHANGED <<head_vars, build_vars, inflow_vars, solver_vars, utils_vars>>

\* model.cap_existing = poi.make_tupledict(..., remaining_capacity_rule), one
\* key at a time
build_cap_existing ==
    /\ inv_pc = "cap_existing"
    /\ LET tuples == year_zone_tech_tuples(inv_params.year)
           t == tuples[inv_i]
       IN  /\ cap_existing' =
                  cap_existing @@ (t :> remaining_capacity_rule(t[1], t[2], t[3]))
           /\ IF inv_i = Len(tuples)
              THEN inv_pc' = "built" /\ inv_i' = 0
              ELSE inv_pc' = inv_pc /\ inv_i' = inv_i + 1
    /\ UNCHANGED <<inv_params, remaining_technology>>
    /\ UNCHANGED <<head_vars, build_vars, inflow_vars, solver_vars, utils_vars>>

InitInvestment ==
    /\ SolveInit({FALSE}, {1}, {Rat(1, 1000)})
    /\ InvestmentInit
    /\ BuildIdle
    /\ InflowIdle
    /\ SolverIdle
    /\ UtilsIdle

NextInvestment ==
    \/ build_remaining_technology
    \/ build_cap_existing

SpecInvestment == InitInvestment /\ [][NextInvestment]_vars

\* the modeled years whose new build the claim C10 counts in year y
EligibleYears(y, te) ==
    {yy \in SeqRange(inv_params.year) :
        yy <= y /\ y - yy < inv_params.lifetime[<<te, y>>]}

RemainingLife(y, te) ==
    inv_params.lifetime[<<te, y>>] - (y - inv_params.year[1])

\* C11: for every (y, z, te) the remaining pre-horizon capacity is the sum of
\* the historical capacity hcap[z, te, a] over the age cohorts a = 1 through
\* T - (y - y_start), each once, and it is 0 (no term) when
\* T - (y - y_start) <= 0.
C11_RemainingSumsCohortsOneToRemainingLife ==
    \A t \in DOMAIN remaining_technology :
        LET e == remaining_technology[t]
        IN  /\ SeqRange(e) =
                   {<<"hcap", t[2], t[3], a>> : a \in 1..RemainingLife(t[1], t[3])}
            /\ Len(e) = Cardinality(SeqRange(e))

(***************************************************************************)
(* Construction of the constraint families (prepshot/_model/*.py).         *)
(* A rule returns PyNone or Value(x); an expression or a constraint x is   *)
(* kept symbolically, a variable being the tuple of its name and its key.  *)
(***************************************************************************)
PyNone == <<>>

Value(x) == <<x>>

\* np.Inf, as a rational with denominator 0
Inf == <<1, 0>>

\* poi.make_tupledict(*coords, rule=rule): the rule is applied to every key of
\* the product and the keys for which it returns None are left out
make_tupledict(keys, rule(_)) ==
    [k \in {kk \in keys : rule(kk) # PyNone} |-> rule(k)[1]]

\* model.add_linear_constraint(lhs, sense, 0)
add_linear_constraint(lhs, sense) == [lhs |-> lhs, sense |-> sense, rhs |-> 0]

\* a pyomo Set built from a list, and the integer 0 that create_model stores
\* when no technology has the type
PySet(items) == [py |-> "Set", items |-> items]

PyZero == [py |-> "int", items |-> <<>>]

\* iter(v) succeeds
IsIterable(v) == v.py = "Set"

\* v != 0
NotZero(v) == v.py # "int"

TechTypes == {"storage", "nondispatchable", "dispatchable", "hydro"}

\* [i for i, j in technology_type.items() if j == kind]
OfType(kind) ==
    SelectSeq(tech, LAMBDA te : bparams.technology_type[te] = kind)

\* create_model: Set(initialize=[...]) if kind in para['type'].values(),
\* else 0
SubtypeSet(kind) ==
    IF \E te \in SeqRange(tech) : bparams.technology_type[te] = kind
    THEN PySet(OfType(kind))
    ELSE PyZero

\* params['year'] and params['hour'] of a model under construction
BuildYear == [i \in 1..YearSpan |-> FirstYear + i - 1]

BuildHour == [i \in 1..MaxHour |-> i]

Pairs(S) == S \X S

DistinctPairs(S) == {p \in S \X S : p[1] # p[2]}

\* key sets of the families
YZZ == {<<y, z, z1>> : y \in SeqRange(bparams.year),
                        z \in SeqRange(zone), z1 \in SeqRange(zone)}

HMYZZ == {<<h, m, y, z, z1>> : h \in SeqRange(bparams.hour),
                                 m \in SeqRange(month),
                                 y \in SeqRange(bparams.year),
                                 z \in SeqRange(zone), z1 \in SeqRange(zone)}

HMYZ == {<<h, m, y, z>> : h \in SeqRange(bparams.hour), m \in SeqRange(month),
                           y \in SeqRange(bparams.year), z \in SeqRange(zone)}

HMYZT(techs) ==
    {<<h, m, y, z, te>> : h \in SeqRange(bparams.hour), m \in SeqRange(month),
                           y \in SeqRange(bparams.year), z \in SeqRange(zone),
                           te \in SeqRange(techs)}

MYZT(techs) ==
    {<<m, y, z, te>> : m \in SeqRange(month), y \in SeqRange(bparams.year),
                        z \in SeqRange(zone), te \in SeqRange(techs)}

YZT == {<<y, z, te>> : y \in SeqRange(bparams.year), z \in SeqRange(zone),
                        te \in SeqRange(tech)}

YZ == {<<y, z>> : y \in SeqRange(bparams.year), z \in SeqRange(zone)}

Y == {<<y>> : y \in SeqRange(bparams.year)}

SHMY == {<<s, h, m, y>> : s \in SeqRange(stations),
                           h \in SeqRange(bparams.hour), m \in SeqRange(month),
                           y \in SeqRange(bparams.year)}

SMY == {<<s, m, y>> : s \in SeqRange(stations), m \in SeqRange(month),
                       y \in SeqRange(bparams.year)}

\* construction goes on (nothing was raised) and builder `name` has not run
NotBuilt(name) == raised = "None" /\ name \notin constructed

\* attribute `name` of the model is set
Built(name) == name \in DOMAIN bmodel

\* create_model: the basic sets and the sets by type of technology
create_model_sets ==
    /\ NotBuilt("create_model")
    /\ constructed' = constructed \cup {"create_model"}
    /\ bmodel' = bmodel @@
           [year |-> bparams.year,
            zone |-> zone,
            tech |-> tech,
            hour |-> bparams.hour,
            hour_p |-> <<0>> \o bparams.hour,
            month |-> month,
            storage_tech |-> SubtypeSet("storage"),
            nondispatchable_tech |-> SubtypeSet("nondispatchable"),
            dispatchable_tech |-> SubtypeSet("dispatchable"),
            hydro_tech |-> SubtypeSet("hydro")]
    /\ UNCHANGED <<bparams, raised>>
    /\ UNCHANGED <<head_vars, inv_vars, inflow_vars, solver_vars, utils_vars>>

(***************************************************************************)
(* prepshot/_model/transmission.py : AddTransmissionConstraints            *)
(***************************************************************************)
\* z != z1
DistinctZones_always(z, z1) == TRUE

DistinctZones(z, z1) == z # z1

\* trans_physical_rule: cap_newline[y, z, z1] - cap_newline[y, z1, z] == 0,
\* for z != z1 only
trans_physical_rule(k) ==
    LET y == k[1]
        z == k[2]
        z1 == k[3]
    IN  IF DistinctZones(z, z1)
        THEN Value(add_linear_constraint(
                 [plus |-> <<"cap_newline", y, z, z1>>,
                  minus |-> <<"cap_newline", y, z1, z>>], "Eq"))
        ELSE PyNone

\* trans_capacity_rule: the new lines of the years up to y plus lc[z, z1]
trans_capacity_rule(k) ==
    LET y == k[1]
        z == k[2]
        z1 == k[3]
        years == bparams.year
        lc == bparams.transmission_line_existing_capacity
    IN  Value([new_capacity_line |->
                   [i \in 1..IndexOf(years, y) |->
                       <<"cap_newline", years[i], z, z1>>],
               remaining_capacity_line |-> lc[<<z, z1>>]])

\* trans_balance_rule: eff[z, z1] * trans_export[h, m, y, z, z1]
trans_balance_rule(k) ==
    Value([eff |-> <<"transmission_line_efficiency", k[4], k[5]>>,
           export |-> <<"trans_export", k[1], k[2], k[3], k[4], k[5]>>])

\* trans_up_bound_rule: trans_export - cap_lines_existing <= 0
trans_up_bound_rule(k) ==
    Value(add_linear_constraint(
        [plus |-> <<"trans_export", k[1], k[2], k[3], k[4], k[5]>>,
         minus |-> <<"cap_lines_existing", k[3], k[4], k[5]>>], "Leq"))

\* AddTransmissionConstraints.__init__: four families over every (z, z1) of
\* zone x zone; lc[z, z1] of a pair without entry raises KeyError
AddTransmissionConstraints_init ==
    /\ NotBuilt("AddTransmissionConstraints")
    /\ Built("zone")
    /\ IF Pairs(SeqRange(zone)) \subseteq
              DOMAIN bparams.transmission_line_existing_capacity
       THEN /\ bmodel' = bmodel @@
                   [cap_lines_existing |-> make_tupledict(YZZ, trans_capacity_rule),
                    trans_import |-> make_tupledict(HMYZZ, trans_balance_rule),
                    trans_physical_cons |-> make_tupledict(YZZ, trans_physical_rule),
                    trans_up_bound_cons |-> make_tupledict(HMYZZ, trans_up_bound_rule)]
            /\ constructed' = constructed \cup {"AddTransmissionConstraints"}
            /\ UNCHANGED raised
       ELSE /\ raised' = "KeyError"
            /\ UNCHANGED <<bmodel, constructed>>
    /\ UNCHANGED bparams
    /\ UNCHANGED <<head_vars, inv_vars, inflow_vars, solver_vars, utils_vars>>

(***************************************************************************)
(* prepshot/_model/demand.py : AddDemandConstraints                        *)
(***************************************************************************)
\* power_balance_rule: demand - (imp_z - exp_z + gen_z - charge_z) == 0
power_balance_rule(k) ==
    LET h == k[1]
        m == k[2]
        y == k[3]
        z == k[4]
        storage_tech == bmodel.storage_tech.items
    IN  Value(add_linear_constraint(
            [demand_z |-> <<"demand", z, y, m, h>>,
             imp_z |-> [i \in 1..Len(zone) |->
                           <<"trans_import", h, m, y, zone[i], z>>],
             exp_z |-> [i \in 1..Len(zone) |->
                           <<"trans_export", h, m, y, z, zone[i]>>],
             gen_z |-> [i \in 1..Len(tech) |-> <<"gen", h, m, y, z, tech[i]>>],
             charge_z |-> [i \in 1..Len(storage_tech) |->
                              <<"charge", h, m, y, z, storage_tech[i]>>]],
            "Eq"))

\* AddDemandConstraints.__init__; `for te in model.storage_tech` raises
\* TypeError when storage_tech is 0
AddDemandConstraints_init ==
    /\ NotBuilt("AddDemandConstraints")
    /\ Built("trans_import")
    /\ IF IsIterable(bmodel.storage_tech)
       THEN /\ bmodel' = bmodel @@
                   [power_balance_cons |-> make_tupledict(HMYZ, power_balance_rule)]
            /\ constructed' = constructed \cup {"AddDemandConstraints"}
            /\ UNCHANGED raised
       ELSE /\ raised' = "TypeError"
            /\ UNCHANGED <<bmodel, constructed>>
    /\ UNCHANGED bparams
    /\ UNCHANGED <<head_vars, inv_vars, inflow_vars, solver_vars, utils_vars>>

(***************************************************************************)
(* prepshot/_model/storage.py : AddStorageConstraints                      *)
(***************************************************************************)
\* storage[h] - (storage[h-1] - gen / de + charge * ce) == 0
energy_storage_balance_rule(k) ==
    Value(add_linear_constraint(
        [storage |-> <<"storage", k[1], k[2], k[3], k[4], k[5]>>,
         previous |-> <<"storage", k[1] - 1, k[2], k[3], k[4], k[5]>>,
         gen |-> <<"gen", k[1], k[2], k[3], k[4], k[5]>>,
         charge |-> <<"charge", k[1], k[2], k[3], k[4], k[5]>>], "Eq"))

\* storage[0] - esl * cap_existing * epr * dt == 0
init_energy_storage_rule(k) ==
    Value(add_linear_constraint(
        [storage |-> <<"storage", 0, k[1], k[2], k[3], k[4]>>,
         cap_existing |-> <<"cap_existing", k[2], k[3], k[4]>>], "Eq"))

\* storage[hour[-1]] - storage[0] == 0
end_energy_storage_rule(k) ==
    Value(add_linear_constraint(
        [storage |-> <<"storage", LastOf(bparams.hour), k[1], k[2], k[3], k[4]>>,
         initial |-> <<"storage", 0, k[1], k[2], k[3], k[4]>>], "Eq"))

\* storage[h] - cap_existing * epr * dt <= 0
energy_storage_up_bound_rule(k) ==
    Value(add_linear_constraint(
        [storage |-> <<"storage", k[1], k[2], k[3], k[4], k[5]>>,
         cap_existing |-> <<"cap_existing", k[3], k[4], k[5]>>], "Leq"))

\* gen / de - storage[h-1] <= 0
energy_storage_gen_rule(k) ==
    Value(add_linear_constraint(
        [gen |-> <<"gen", k[1], k[2], k[3], k[4], k[5]>>,
         previous |-> <<"storage", k[1] - 1, k[2], k[3], k[4], k[5]>>], "Leq"))

\* AddStorageConstraints.__init__: the product with model.storage_tech raises
\* TypeError when storage_tech is 0
AddStorageConstraints_init ==
    /\ NotBuilt("AddStorageConstraints")
    /\ Built("zone")
    /\ IF IsIterable(bmodel.storage_tech)
       THEN LET st == bmodel.storage_tech.items
            IN  /\ bmodel' = bmodel @@
                       [energy_storage_balance_cons |->
                            make_tupledict(HMYZT(st), energy_storage_balance_rule),
                        init_energy_storage_cons |->
                            make_tupledict(MYZT(st), init_energy_storage_rule),
                        end_energy_storage_cons |->
                            make_tupledict(MYZT(st), end_energy_storage_rule),
                        energy_storage_up_bound_cons |->
                            make_tupledict(HMYZT(st), energy_storage_up_bound_rule),
                        energy_storage_gen_cons |->
                            make_tupledict(HMYZT(st), energy_storage_gen_rule)]
                /\ constructed' = constructed \cup {"AddStorageConstraints"}
                /\ UNCHANGED raised
       ELSE /\ raised' = "TypeError"
            /\ UNCHANGED <<bmodel, constructed>>
    /\ UNCHANGED bparams
    /\ UNCHANGED <<head_vars, inv_vars, inflow_vars, solver_vars, utils_vars>>

(***************************************************************************)
(* prepshot/_model/nondispatchable.py : AddNondispatchableConstraints      *)
(***************************************************************************)
\* gen - cap_existing * cf * dt <= 0
renew_gen_rule(k) ==
    Value(add_linear_constraint(
        [gen |-> <<"gen", k[1], k[2], k[3], k[4], k[5]>>,
         cap_existing |-> <<"cap_existing", k[3], k[4], k[5]>>], "Leq"))

\* AddNondispatchableConstraints.__init__: the family is built only
\* if model.nondispatchable_tech != 0
AddNondispatchableConstraints_init ==
    /\ NotBuilt("AddNondispatchableConstraints")
    /\ Built("zone")
    /\ IF NotZero(bmodel.nondispatchable_tech)
       THEN bmodel' = bmodel @@
                [renew_gen_cons |->
                     make_tupledict(HMYZT(bmodel.nondispatchable_tech.items),
                                    renew_gen_rule)]
       ELSE UNCHANGED bmodel
    /\ constructed' = constructed \cup {"AddNondispatchableConstraints"}
    /\ UNCHANGED <<bparams, raised>>
    /\ UNCHANGED <<head_vars, inv_vars, inflow_vars, solver_vars, utils_vars>>

(***************************************************************************)
(* prepshot/_model/hydro.py : AddHydropowerConstraints                     *)
(***************************************************************************)
\* self.hydro_type = [i for i, j in technology_type.items() if j == 'hydro']
hydro_type == OfType("hydro")

\* self.main_hydro = self.hydro_type[0] if self.hydro_type else None
main_hydro_last ==
    IF hydro_type # <<>> THEN Value(LastOf(hydro_type)) ELSE PyNone

main_hydro ==
    IF hydro_type # <<>> THEN Value(hydro_type[1]) ELSE PyNone

\* the stations s with self.station_zone.get(s) == z, in the order of
\* model.station
StationsOf(z) ==
    SelectSeq(stations,
              LAMBDA s : bparams.reservoir_characteristics.zone[s] = z)

\* lhs = variable - bound; add_linear_constraint(lhs, sense, 0)
bound_rule(variable, bound, sense) ==
    Value(add_linear_constraint([variable |-> variable, bound |-> bound], sense))

\* outflow_rule: genflow + spillflow
outflow_rule(k) ==
    Value([genflow |-> <<"genflow", k[1], k[2], k[3], k[4]>>,
           spillflow |-> <<"spillflow", k[1], k[2], k[3], k[4]>>])

\* inflow_rule for a station without upstream link (wdt_dict.get(s, []) is
\* empty): the natural inflow alone
inflow_rule_no_link(k) ==
    Value([up_stream_outflow |-> <<>>,
           inflow |-> <<"inflow", k[1], k[4], k[3], k[2]>>])

\* water_balance_rule
water_balance_rule(k) ==
    Value(add_linear_constraint(
        [inflow |-> <<"inflow", k[1], k[2], k[3], k[4]>>,
         outflow |-> <<"outflow", k[1], k[2], k[3], k[4]>>,
         withdraw |-> <<"withdraw", k[1], k[2], k[3], k[4]>>,
         previous |-> <<"storage_reservoir", k[1], k[2] - 1, k[3], k[4]>>,
         storage |-> <<"storage_reservoir", k[1], k[2], k[3], k[4]>>], "Eq"))

\* init_storage_rule, end_storage_rule: storage at hour_p[0], hour_p[-1]
init_storage_rule(k) ==
    bound_rule(<<"storage_reservoir", k[1], 0, k[2], k[3]>>,
               <<"initial_reservoir_storage_level", k[2], k[1]>>, "Eq")

end_storage_rule(k) ==
    bound_rule(<<"storage_reservoir", k[1], LastOf(bparams.hour), k[2], k[3]>>,
               <<"final_reservoir_storage_level", k[2], k[1]>>, "Eq")

\* output - genflow * efficiency * 1e-3 == 0
build_output_calc_rule(k) ==
    Value(add_linear_constraint(
        [output |-> <<"output", k[1], k[2], k[3], k[4]>>,
         genflow |-> <<"genflow", k[1], k[2], k[3], k[4]>>], "Eq"))

outflow_low_bound_rule(k) ==
    bound_rule(<<"outflow", k[1], k[2], k[3], k[4]>>,
               bparams.reservoir_characteristics.outflow_min[k[1]], "Geq")

outflow_up_bound_rule(k) ==
    bound_rule(<<"outflow", k[1], k[2], k[3], k[4]>>,
               bparams.reservoir_characteristics.outflow_max[k[1]], "Leq")

genflow_up_bound_rule(k) ==
    bound_rule(<<"genflow", k[1], k[2], k[3], k[4]>>,
               bparams.reservoir_characteristics.GQ_max[k[1]], "Leq")

storage_low_bound_rule(k) ==
    bound_rule(<<"storage_reservoir", k[1], k[2], k[3], k[4]>>,
               bparams.reservoir_storage_lower_bound[<<k[1], k[3], k[2]>>], "Geq")

storage_up_bound_rule(k) ==
    bound_rule(<<"storage_reservoir", k[1], k[2], k[3], k[4]>>,
               bparams.reservoir_storage_upper_bound[<<k[1], k[3], k[2]>>], "Leq")

output_low_bound_rule(k) ==
    bound_rule(<<"output", k[1], k[2], k[3], k[4]>>,
               bparams.reservoir_characteristics.N_min[k[1]], "Geq")

build_output_up_bound_rule(k) ==
    bound_rule(<<"output", k[1], k[2], k[3], k[4]>>,
               bparams.reservoir_characteristics.N_max[k[1]], "Leq")

\* hydro_output_rule: nothing without a hydro technology; with hydrology the
\* outputs of the stations of z times dt minus gen[h, m, y, z, main_hydro],
\* else gen[h, m, y, z, main_hydro] minus the predefined hydropower
hydro_output_rule(k) ==
    LET h == k[1]
        m == k[2]
        y == k[3]
        z == k[4]
    IN  IF main_hydro = PyNone THEN PyNone
        ELSE IF bparams.isinflow
        THEN Value(add_linear_constraint(
                 [plus |-> [i \in 1..Len(StationsOf(z)) |->
                               <<"output", StationsOf(z)[i], h, m, y>>],
                  dt |-> bparams.dt,
                  minus |-> <<"gen", h, m, y, z, main_hydro[1]>>], "Eq"))
        ELSE Value(add_linear_constraint(
                 [plus |-> <<<<"gen", h, m, y, z, main_hydro[1]>>>>,
                  minus |-> <<"predefined_hydropower", "Hydro", z, y, m, h>>],
                 "Eq"))

\* the families built only when params['isinflow'] is set
HydrologyFamilies ==
    [outflow |-> make_tupledict(SHMY, outflow_rule),
     inflow |-> make_tupledict(SHMY, inflow_rule_no_link),
     water_balance_cons |-> make_tupledict(SHMY, water_balance_rule),
     init_storage_cons |-> make_tupledict(SMY, init_storage_rule),
     end_storage_cons |-> make_tupledict(SMY, end_storage_rule),
     output_calc_cons |-> make_tupledict(SHMY, build_output_calc_rule),
     outflow_low_bound_cons |-> make_tupledict(SHMY, outflow_low_bound_rule),
     outflow_up_bound_cons |-> make_tupledict(SHMY, outflow_up_bound_rule),
     genflow_up_bound_cons |-> make_tupledict(SHMY, genflow_up_bound_rule),
     storage_low_bound_cons |-> make_tupledict(SHMY, storage_low_bound_rule),
     storage_up_bound_cons |-> make_tupledict(SHMY, storage_up_bound_rule),
     output_low_bound_cons |-> make_tupledict(SHMY, output_low_bound_rule),
     output_up_bound_cons |-> make_tupledict(SHMY, build_output_up_bound_rule)]

\* AddHydropowerConstraints.__init__
AddHydropowerConstraints_init ==
    /\ NotBuilt("AddHydropowerConstraints")
    /\ Built("zone")
    /\ bmodel' = bmodel
           @@ (IF bparams.isinflow THEN HydrologyFamilies ELSE <<>>)
           @@ [hydro_output_cons |-> make_tupledict(HMYZ, hydro_output_rule)]
    /\ constructed' = constructed \cup {"AddHydropowerConstraints"}
    /\ UNCHANGED <<bparams, raised>>
    /\ UNCHANGED <<head_vars, inv_vars, inflow_vars, solver_vars, utils_vars>>

(***************************************************************************)
(* prepshot/_model/generation.py : AddGenerationConstraints                *)
(***************************************************************************)
\* gen - cap_existing * dt <= 0
gen_up_bound_rule(k) ==
    Value(add_linear_constraint(
        [gen |-> <<"gen", k[1], k[2], k[3], k[4], k[5]>>,
         cap_existing |-> <<"cap_existing", k[3], k[4], k[5]>>], "Leq"))

\* rp < 1 < h
RampLimited_any_hour(rp, h) == RLess(rp, RInt(1))

RampLimited(rp, h) == RLess(rp, RInt(1)) /\ 1 < h

\* ramping_up_rule: gen[h] - gen[h-1] - rp * cap_existing <= 0
ramping_up_rule(k) ==
    LET h == k[1]
        rp == RMul(bparams.ramp_up[k[5]], bparams.dt)
    IN  IF RampLimited(rp, h)
        THEN Value(add_linear_constraint(
                 [plus |-> <<"gen", h, k[2], k[3], k[4], k[5]>>,
                  minus |-> <<"gen", h - 1, k[2], k[3], k[4], k[5]>>,
                  rate |-> rp,
                  cap_existing |-> <<"cap_existing", k[3], k[4], k[5]>>], "Leq"))
        ELSE PyNone

\* ramping_down_rule: gen[h-1] - gen[h] - rd * cap_existing <= 0
ramping_down_rule(k) ==
    LET h == k[1]
        rd == RMul(bparams.ramp_down[k[5]], bparams.dt)
    IN  IF RampLimited(rd, h)
        THEN Value(add_linear_constraint(
                 [plus |-> <<"gen", h - 1, k[2], k[3], k[4], k[5]>>,
                  minus |-> <<"gen", h, k[2], k[3], k[4], k[5]>>,
                  rate |-> rd,
                  cap_existing |-> <<"cap_existing", k[3], k[4], k[5]>>], "Leq"))
        ELSE PyNone

\* AddGenerationConstraints.__init__
AddGenerationConstraints_init ==
    /\ NotBuilt("AddGenerationConstraints")
    /\ Built("zone")
    /\ bmodel' = bmodel @@
           [gen_up_bound_cons |-> make_tupledict(HMYZT(tech), gen_up_bound_rule),
            ramping_up_cons |-> make_tupledict(HMYZT(tech), ramping_up_rule),
            ramping_down_cons |-> make_tupledict(HMYZT(tech), ramping_down_rule)]
    /\ constructed' = constructed \cup {"AddGenerationConstraints"}
    /\ UNCHANGED <<bparams, raised>>
    /\ UNCHANGED <<head_vars, inv_vars, inflow_vars, solver_vars, utils_vars>>

(***************************************************************************)
(* The bound families of prepshot/_model/investment.py, co2.py, finance.py *)
(***************************************************************************)
\* bound != np.Inf
IsFinite(bound) == bound # Inf

\* if bound != np.Inf: variable - bound <= 0, else None
finite_up_bound_rule(variable, bound) ==
    IF IsFinite(bound) THEN bound_rule(variable, bound, "Leq") ELSE PyNone

\* tech_up_bound_rule: cap_existing[y, z, te] - tub <= 0
tech_up_bound_rule(k) ==
    finite_up_bound_rule(<<"cap_existing", k[1], k[2], k[3]>>,
                         bparams.technology_upper_bound[<<k[3], k[2]>>])

\* new_tech_up_bound_rule: cap_newtech[y, z, te] - ntub <= 0
new_tech_up_bound_rule(k) ==
    finite_up_bound_rule(<<"cap_newtech", k[1], k[2], k[3]>>,
                         bparams.new_technology_upper_bound[<<k[3], k[2]>>])

\* new_tech_low_bound_rule: cap_newtech[y, z, te] - ntlb >= 0
new_tech_low_bound_rule(k) ==
    bound_rule(<<"cap_newtech", k[1], k[2], k[3]>>,
               bparams.new_technology_lower_bound[<<k[3], k[2]>>], "Geq")

\* AddInvestmentConstraints.__init__, the three bound families it builds
\* after remaining_technology and cap_existing
AddInvestmentConstraints_bound_cons ==
    /\ NotBuilt("AddInvestmentConstraints")
    /\ Built("zone")
    /\ bmodel' = bmodel @@
           [tech_up_bound_cons |-> make_tupledict(YZT, tech_up_bound_rule),
            new_tech_up_bound_cons |-> make_tupledict(YZT, new_tech_up_bound_rule),
            new_tech_low_bound_cons |-> make_tupledict(YZT, new_tech_low_bound_rule)]
    /\ constructed' = constructed \cup {"AddInvestmentConstraints"}
    /\ UNCHANGED <<bparams, raised>>
    /\ UNCHANGED <<head_vars, inv_vars, inflow_vars, solver_vars, utils_vars>>

\* carbon_breakdown: the emissions of (y, z, te) over the hours and months
carbon_breakdown(k) ==
    Value([ef |-> <<"emission_factor", k[3], k[1]>>,
           gen |-> {<<"gen", h, m, k[1], k[2], k[3]>> :
                       h \in SeqRange(bparams.hour), m \in SeqRange(month)}])

\* emission_calc_by_zone_rule: the sum of carbon_breakdown[y, z, te] over te
emission_calc_by_zone_rule(k) ==
    Value([i \in 1..Len(tech) |-> <<"carbon_breakdown", k[1], k[2], tech[i]>>])

\* emission_calc_rule: the sum of carbon_capacity[y, z] over z
emission_calc_rule(k) ==
    Value([i \in 1..Len(zone) |-> <<"carbon_capacity", k[1], zone[i]>>])

\* emission_limit_rule: None if limit[y] == np.Inf, else carbon[y] - limit[y]
\* <= 0
emission_limit_rule(k) ==
    finite_up_bound_rule(<<"carbon", k[1]>>, bparams.carbon_emission_limit[k[1]])

\* AddCo2EmissionConstraints.__init__
AddCo2EmissionConstraints_init ==
    /\ NotBuilt("AddCo2EmissionConstraints")
    /\ Built("zone")
    /\ bmodel' = bmodel @@
           [carbon_breakdown |-> make_tupledict(YZT, carbon_breakdown),
            carbon_capacity |-> make_tupledict(YZ, emission_calc_by_zone_rule),
            carbon |-> make_tupledict(Y, emission_calc_rule),
            emission_limit_cons |-> make_tupledict(Y, emission_limit_rule)]
    /\ constructed' = constructed \cup {"AddCo2EmissionConstraints"}
    /\ UNCHANGED <<bparams, raised>>
    /\ UNCHANGED <<head_vars, inv_vars, inflow_vars, solver_vars, utils_vars>>

\* cost_newtech_breakdown: tic * cap_newtech[y, z, te] * ivf
cost_newtech_breakdown(k) ==
    Value([cap_newtech |-> <<"cap_newtech", k[1], k[2], k[3]>>])

\* public_debt_newtech: cost_newtech_breakdown[y, z, te] * public_debt_ratio
public_debt_newtech(k) ==
    Value([cost_newtech_breakdown |-> <<"cost_newtech_breakdown", k[1], k[2], k[3]>>])

\* public_debt_upper_bound_system_rule: the debts of year y minus the bound
\* <= 0, None for np.Inf
public_debt_upper_bound_system_rule(k) ==
    finite_up_bound_rule(
        {<<"public_debt_newtech", k[1], z, te>> :
            z \in SeqRange(zone), te \in SeqRange(tech)},
        bparams.public_debt_upper_bound_system[k[1]])

\* public_debt_upper_bound_zone_rule: the debts of (y, z) minus the bound
\* <= 0, None for np.Inf
public_debt_upper_bound_zone_rule(k) ==
    finite_up_bound_rule(
        {<<"public_debt_newtech", k[1], k[2], te>> : te \in SeqRange(tech)},
        bparams.public_debt_upper_bound_zone[<<k[2], k[1]>>])

\* AddFinanceConstraints.__init__
AddFinanceConstraints_init ==
    /\ NotBuilt("AddFinanceConstraints")
    /\ Built("zone")
    /\ bmodel' = bmodel @@
           [cost_newtech_breakdown |-> make_tupledict(YZT, cost_newtech_breakdown),
            public_debt_newtech |-> make_tupledict(YZT, public_debt_newtech),
            public_debt_upper_bound_system_cons |->
                make_tupledict(Y, public_debt_upper_bound_system_rule),
            public_debt_upper_bound_zone_cons |->
                make_tupledict(YZ, public_debt_upper_bound_zone_rule)]
    /\ constructed' = constructed \cup {"AddFinanceConstraints"}
    /\ UNCHANGED <<bparams, raised>>
    /\ UNCHANGED <<head_vars, inv_vars, inflow_vars, solver_vars, utils_vars>>

(***************************************************************************)
(* Inputs of a model under construction.                                   *)
(***************************************************************************)
\* a table with the same finite value at every key
FiniteTable(keys) == [k \in keys |-> RInt(100)]

ZeroTable(keys) == [k \in keys |-> RInt(0)]

\* the tables over `keys` that are finite everywhere, or np.Inf at one key
BoundTables(keys) ==
    {[k \in keys |-> IF k \in infinite THEN Inf ELSE RInt(100)] :
        infinite \in {{}, {CHOOSE k \in keys : TRUE}}}

TechZone == {<<te, z>> : te \in SeqRange(tech), z \in SeqRange(zone)}

ZoneYear == {<<z, y>> : z \in SeqRange(zone), y \in SeqRange(BuildYear)}

StationMonthHour ==
    {<<s, m, h>> : s \in SeqRange(stations), m \in SeqRange(month),
                    h \in SeqRange(BuildHour)}

\* one dispatchable and one storage technology
DefaultTypes ==
    [te \in SeqRange(tech) |-> IF te = tech[1] THEN "dispatchable" ELSE "storage"]

\* an existing-capacity entry for every pair of zone x zone, for the pairs
\* of distinct zones only, for one direction of one corridor only
LineDomains ==
    {Pairs(SeqRange(zone)), DistinctPairs(SeqRange(zone)),
     {<<zone[1], zone[2]>>}}

\* the upper bounds of the bound-enforcing families
FiniteBounds ==
    [technology_upper_bound |-> FiniteTable(TechZone),
     new_technology_upper_bound |-> FiniteTable(TechZone),
     carbon_emission_limit |-> FiniteTable(SeqRange(BuildYear)),
     public_debt_upper_bound_system |-> FiniteTable(SeqRange(BuildYear)),
     public_debt_upper_bound_zone |-> FiniteTable(ZoneYear),
     outflow_max |-> FiniteTable(SeqRange(stations)),
     GQ_max |-> FiniteTable(SeqRange(stations)),
     N_max |-> FiniteTable(SeqRange(stations)),
     reservoir_storage_upper_bound |-> FiniteTable(StationMonthHour)]

AnyBounds ==
    [technology_upper_bound : BoundTables(TechZone),
     new_technology_upper_bound : BoundTables(TechZone),
     carbon_emission_limit : BoundTables(SeqRange(BuildYear)),
     public_debt_upper_bound_system : BoundTables(SeqRange(BuildYear)),
     public_debt_upper_bound_zone : BoundTables(ZoneYear),
     outflow_max : BoundTables(SeqRange(stations)),
     GQ_max : BoundTables(SeqRange(stations)),
     N_max : BoundTables(SeqRange(stations)),
     reservoir_storage_upper_bound : BoundTables(StationMonthHour)]

\* params['transmission_line_lifetime'] of every corridor, in years
LineLifetime == 1

\* model.params
BuildParams(types, lc, isinflow, station_zone, ramp_up, ramp_down, dt, ub) ==
    [year |-> BuildYear,
     hour |-> BuildHour,
     dt |-> dt,
     technology_type |-> types,
     transmission_line_existing_capacity |-> lc,
     transmission_line_lifetime |-> [p \in DOMAIN lc |-> LineLifetime],
     isinflow |-> isinflow,
     reservoir_characteristics |->
         [zone |-> station_zone,
          outflow_min |-> ZeroTable(SeqRange(stations)),
          outflow_max |-> ub.outflow_max,
          GQ_max |-> ub.GQ_max,
          N_min |-> ZeroTable(SeqRange(stations)),
          N_max |-> ub.N_max],
     reservoir_storage_lower_bound |-> ZeroTable(StationMonthHour),
     reservoir_storage_upper_bound |-> ub.reservoir_storage_upper_bound,
     ramp_up |-> ramp_up,
     ramp_down |-> ramp_down,
     technology_upper_bound |-> ub.technology_upper_bound,
     new_technology_upper_bound |-> ub.new_technology_upper_bound,
     new_technology_lower_bound |-> ZeroTable(TechZone),
     carbon_emission_limit |-> ub.carbon_emission_limit,
     public_debt_upper_bound_system |-> ub.public_debt_upper_bound_system,
     public_debt_upper_bound_zone |-> ub.public_debt_upper_bound_zone]

\* the state before the construction of a model whose parameters are drawn
\* from the given sets
BuildInit(typess, line_domains, isinflows, station_zones, ramps, dts, ubs) ==
    /\ \E types \in typess, ld \in line_domains, isinflow \in isinflows,
          station_zone \in station_zones, ramp_up \in ramps,
          ramp_down \in ramps, dt \in dts, ub \in ubs :
           bparams = BuildParams(types, [p \in ld |-> RInt(100)], isinflow,
                                 station_zone, ramp_up, ramp_down, dt, ub)
    /\ bmodel = <<>>
    /\ constructed = {}
    /\ raised = "None"

UnitRamps == {[te \in SeqRange(tech) |-> RInt(1)]}

OneZoneStations == {[s \in SeqRange(stations) |-> zone[1]]}

\* construction of the sets, the transmission, demand, storage,
\* non-dispatchable and hydropower families
InitBuild ==
    /\ SolveInit({FALSE}, {1}, {Rat(1, 1000)})
    /\ InvestmentIdle
    /\ InflowIdle
    /\ SolverIdle
    /\ UtilsIdle
    /\ BuildInit([SeqRange(tech) -> TechTypes], LineDomains, BOOLEAN,
                 [SeqRange(stations) -> SeqRange(zone)], UnitRamps,
                 {RInt(1)}, {FiniteBounds})

NextBuild ==
    \/ create_model_sets
    \/ AddTransmissionConstraints_init
    \/ AddDemandConstraints_init
    \/ AddStorageConstraints_init
    \/ AddNondispatchableConstraints_init
    \/ AddHydropowerConstraints_init

SpecBuild == InitBuild /\ [][NextBuild]_vars

BuildTypeOK ==
    /\ raised \in {"None", "KeyError", "TypeError"}
    /\ constructed \subseteq
           {"create_model", "AddTransmissionConstraints", "AddDemandConstraints",
            "AddStorageConstraints", "AddNondispatchableConstraints",
            "AddHydropowerConstraints", "AddGenerationConstraints",
            "AddInvestmentConstraints", "AddCo2EmissionConstraints",
            "AddFinanceConstraints"}

(***************************************************************************)
(* Properties of the constructed families.                                 *)
(***************************************************************************)
\* the pair (z, z1) has an existing-capacity entry
Declared(z, z1) ==
    <<z, z1>> \in DOMAIN bparams.transmission_line_existing_capacity

\* C12: once the transmission families are built, for every year y and every
\* ordered pair of distinct zones (z, z1) with an existing corridor there is
\* the equality constraint cap_newline[y,z,z1] - cap_newline[y,z1,z] == 0,
\* and there is no symmetry constraint for z = z1.
C12_SymmetryForDistinctZonesOnly ==
    Built("trans_physical_cons") =>
        \A y \in SeqRange(bparams.year), z \in SeqRange(zone),
           z1 \in SeqRange(zone) :
            /\ (z # z1 /\ Declared(z, z1)) =>
                   /\ <<y, z, z1>> \in DOMAIN bmodel.trans_physical_cons
                   /\ bmodel.trans_physical_cons[<<y, z, z1>>] =
                          [lhs |-> [plus |-> <<"cap_newline", y, z, z1>>,
                                    minus |-> <<"cap_newline", y, z1, z>>],
                           sense |-> "Eq",
                           rhs |-> 0]
            /\ z = z1 => <<y, z, z1>> \notin DOMAIN bmodel.trans_physical_cons

C12_Witness ==
    /\ Built("trans_physical_cons")
    /\ Len(bparams.year) >= 2
    /\ <<bparams.year[2], zone[1], zone[2]>> \in DOMAIN bmodel.trans_physical_cons
    /\ <<bparams.year[2], zone[2], zone[1]>> \in DOMAIN bmodel.trans_physical_cons
    /\ <<bparams.year[2], zone[1], zone[1]>> \notin DOMAIN bmodel.trans_physical_cons

\* the pairs of zones the keys of a transmission family are about
PairsOf(name) ==
    {<<k[Len(k) - 1], k[Len(k)]>> : k \in DOMAIN bmodel[name]}

TransmissionFamilies ==
    {"cap_lines_existing", "trans_import", "trans_physical_cons",
     "trans_up_bound_cons"}

\* C13: every transmission expression and constraint (existing-line
\* capacity, import, symmetry, export bound) is built for an ordered pair of
\* distinct zones with a declared existing-capacity entry only: no key of
\* these families is about a pair without entry or about z = z1.
C13_TransmissionOnlyForDeclaredDistinctPairs ==
    \A name \in TransmissionFamilies \cap DOMAIN bmodel :
        \A p \in PairsOf(name) : p[1] # p[2] /\ Declared(p[1], p[2])

\* the zones with a valid transmission link with z
Linked(z) == {z1 \in SeqRange(zone) : z1 # z /\ Declared(z, z1)}

\* C14: for every (h, m, y, z) the power balance is demand[z] minus (imports
\* into z - exports from z + generation of every technology in z - charging
\* of the storage technologies in z) == 0, the imports and the exports being
\* summed over the zones z1 linked with z only, never over z itself or an
\* unlinked zone.
C14_PowerBalanceOverLinkedZones ==
    Built("power_balance_cons") =>
        \A k \in HMYZ :
            LET h == k[1]
                m == k[2]
                y == k[3]
                z == k[4]
                c == bmodel.power_balance_cons[k]
            IN  /\ c.sense = "Eq"
                /\ c.lhs.demand_z = <<"demand", z, y, m, h>>
                /\ SeqRange(c.lhs.imp_z) =
                       {<<"trans_import", h, m, y, z1, z>> : z1 \in Linked(z)}
                /\ SeqRange(c.lhs.exp_z) =
                       {<<"trans_export", h, m, y, z, z1>> : z1 \in Linked(z)}
                /\ SeqRange(c.lhs.gen_z) =
                       {<<"gen", h, m, y, z, te>> : te \in SeqRange(tech)}
                /\ SeqRange(c.lhs.charge_z) =
                       {<<"charge", h, m, y, z, te>> :
                           te \in SeqRange(OfType("storage"))}

\* no technology has the type
NoneOfType(kind) == OfType(kind) = <<>>

\* the family is absent or has no member
EmptyFamily(name) == Built(name) => DOMAIN bmodel[name] = {}

\* C18: when no technology is of type storage, non-dispatchable or hydro,
\* the construction does not raise on that account, and once the builder
\* gated on the empty type has run its families have no member.
C18_EmptySubtypeSkipsItsFamilies ==
    /\ (NoneOfType("storage") \/ NoneOfType("nondispatchable")
            \/ NoneOfType("hydro")) => raised # "TypeError"
    /\ (NoneOfType("storage") /\ "AddStorageConstraints" \in constructed) =>
           \A name \in {"energy_storage_balance_cons", "init_energy_storage_cons",
                        "end_energy_storage_cons", "energy_storage_up_bound_cons",
                        "energy_storage_gen_cons"} : EmptyFamily(name)
    /\ (NoneOfType("nondispatchable")
            /\ "AddNondispatchableConstraints" \in constructed) =>
           EmptyFamily("renew_gen_cons")
    /\ (NoneOfType("hydro") /\ "AddHydropowerConstraints" \in constructed) =>
           EmptyFamily("hydro_output_cons")

\* gen[h, m, y, z, te] is constrained to equal the outputs of the stations of
\* z times dt
HydroOutputConstrains(k, te) ==
    /\ k \in DOMAIN bmodel.hydro_output_cons
    /\ bmodel.hydro_output_cons[k] =
           [lhs |-> [plus |-> [i \in 1..Len(StationsOf(k[4])) |->
                                  <<"output", StationsOf(k[4])[i], k[1], k[2], k[3]>>],
                     dt |-> bparams.dt,
                     minus |-> <<"gen", k[1], k[2], k[3], k[4], te>>],
            sense |-> "Eq",
            rhs |-> 0]

HydrologyBuilt == Built("hydro_output_cons") /\ bparams.isinflow

\* C20 as stated: with hydrology, for every (h, m, y, z) and for every
\* technology classified as hydro, the generation of that technology in z is
\* constrained to equal the sum of output[s,h,m,y] * dt over the stations of
\* z.
C20_EveryHydroTechnologyEqualsStationOutput ==
    HydrologyBuilt =>
        \A k \in HMYZ : \A te \in SeqRange(hydro_type) :
            HydroOutputConstrains(k, te)

\* C20, amended: with hydrology, for every (h, m, y, z) the generation of
\* the first technology classified as hydro, and of no other, is constrained
\* to equal the sum of output[s,h,m,y] * dt over the stations of z (zero when
\* z has no station); without a hydro technology there is no such constraint.
C20_FirstHydroTechnologyEqualsStationOutput ==
    HydrologyBuilt =>
        \A k \in HMYZ :
            IF hydro_type = <<>>
            THEN k \notin DOMAIN bmodel.hydro_output_cons
            ELSE /\ HydroOutputConstrains(k, hydro_type[1])
                 /\ \A i \in 2..Len(hydro_type) :
                        ~HydroOutputConstrains(k, hydro_type[i])

C20_Witness ==
    /\ HydrologyBuilt
    /\ Len(hydro_type) = 2
    /\ StationsOf(zone[1]) = stations
    /\ \E k \in DOMAIN bmodel.hydro_output_cons :
           k[4] = zone[2] /\ bmodel.hydro_output_cons[k].lhs.plus = <<>>

(***************************************************************************)
(* Construction of the generation families, for any ramp rates.            *)
(***************************************************************************)
RampRates == {Rat(1, 4), Rat(1, 2), RInt(1)}

TimeSteps == {RInt(1), RInt(2)}

InitGeneration ==
    /\ SolveInit({FALSE}, {1}, {Rat(1, 1000)})
    /\ InvestmentIdle
    /\ InflowIdle
    /\ SolverIdle
    /\ UtilsIdle
    /\ BuildInit({DefaultTypes}, {Pairs(SeqRange(zone))}, {FALSE},
                 OneZoneStations, [SeqRange(tech) -> RampRates], TimeSteps,
                 {FiniteBounds})

NextGeneration ==
    \/ create_model_sets
    \/ AddGenerationConstraints_init

SpecGeneration == InitGeneration /\ [][NextGeneration]_vars

\* C15: once the generation families are built, a ramp-up (ramp-down)
\* constraint exists for (h, m, y, z, te) if and only if
\* ramp_up[te] * dt < 1 (ramp_down[te] * dt < 1) and h is later than the
\* first hour of the hour set; for every other key there is none.
C15_RampConstraintIffLimitedAfterFirstHour ==
    Built("ramping_up_cons") =>
        \A k \in HMYZT(tech) :
            /\ k \in DOMAIN bmodel.ramping_up_cons <=>
                   (RLess(RMul(bparams.ramp_up[k[5]], bparams.dt), RInt(1))
                        /\ k[1] > bparams.hour[1])
            /\ k \in DOMAIN bmodel.ramping_down_cons <=>
                   (RLess(RMul(bparams.ramp_down[k[5]], bparams.dt), RInt(1))
                        /\ k[1] > bparams.hour[1])

C15_Witness ==
    /\ Built("ramping_up_cons")
    /\ \E k \in DOMAIN bmodel.ramping_up_cons :
           /\ k[1] > bparams.hour[1]
           /\ <<bparams.hour[1], k[2], k[3], k[4], k[5]>> \notin
                  DOMAIN bmodel.ramping_up_cons
           /\ k \notin DOMAIN bmodel.ramping_down_cons
    /\ \E k \in HMYZT(tech) :
           /\ k[1] > bparams.hour[1]
           /\ RMul(bparams.ramp_up[k[5]], bparams.dt) = RInt(1)
           /\ k \notin DOMAIN bmodel.ramping_up_cons

(***************************************************************************)
(* Construction of the bound-enforcing families, for any upper bounds.     *)
(***************************************************************************)
InitBounds ==
    /\ SolveInit({FALSE}, {1}, {Rat(1, 1000)})
    /\ InvestmentIdle
    /\ InflowIdle
    /\ SolverIdle
    /\ UtilsIdle
    /\ BuildInit({DefaultTypes}, {Pairs(SeqRange(zone))}, {TRUE},
                 OneZoneStations, UnitRamps, {RInt(1)}, AnyBounds)

NextBounds ==
    \/ create_model_sets
    \/ AddInvestmentConstraints_bound_cons
    \/ AddCo2EmissionConstraints_init
    \/ AddFinanceConstraints_init
    \/ AddHydropowerConstraints_init

SpecBounds == InitBounds /\ [][NextBounds]_vars

\* the families that enforce an upper bound parameter
UpperBoundFamilies ==
    {"tech_up_bound_cons", "new_tech_up_bound_cons", "emission_limit_cons",
     "public_debt_upper_bound_system_cons", "public_debt_upper_bound_zone_cons",
     "outflow_up_bound_cons", "genflow_up_bound_cons", "storage_up_bound_cons",
     "output_up_bound_cons"}

\* C17: in every family that enforces a bound parameter (technology upper
\* bound, new-technology upper bound, annual emission limit, public-debt
\* bounds, reservoir outflow, generation-flow, storage and output bounds) no
\* constraint object has an infinite bound: a key whose bound is infinite has
\* no constraint.
C17_InfiniteBoundYieldsNoConstraint ==
    \A name \in UpperBoundFamilies \cap DOMAIN bmodel :
        \A k \in DOMAIN bmodel[name] : bmodel[name][k].lhs.bound # Inf

(***************************************************************************)
(* prepshot/_model/hydro.py : AddHydropowerConstraints.inflow_rule, for    *)
(* one (s, h, m, y); delays are in hours, dt is the length of a period in  *)
(* hours.                                                                  *)
(***************************************************************************)
DtValues == {8, 12, 24, 30}

DelayValues == {12 * i : i \in 0..MaxDelay}

\* the lists up_streams may be: at most two upstream links
UpStreams == UNION {[1..n -> DelayValues] : n \in 0..2}

InflowInit ==
    /\ in_pc = "for"
    /\ \E n \in 1..MaxPeriods, dt \in DtValues, up_streams \in UpStreams :
           /\ in_params = [hour |-> [i \in 1..n |-> i], dt |-> dt,
                           up_streams |-> up_streams]
           /\ in_h \in 1..n
    /\ in_i = 1
    /\ in_t = 0
    /\ in_reads = <<>>

\* for ups, delay in up_streams: delay = int(int(delay)/dt), then
\* t = h - delay if h - delay >= hour[0] else hour[-1] + h - delay;
\* after the last link the rule returns
inflow_rule_for ==
    /\ in_pc = "for"
    /\ IF in_i > Len(in_params.up_streams)
       THEN in_pc' = "return" /\ UNCHANGED in_t
       ELSE LET delay == in_params.up_streams[in_i] \div in_params.dt
            IN  /\ in_t' = IF in_h - delay >= in_params.hour[1]
                           THEN in_h - delay
                           ELSE LastOf(in_params.hour) + in_h - delay
                /\ in_pc' = "while"
    /\ UNCHANGED <<in_params, in_h, in_i, in_reads>>
    /\ UNCHANGED <<head_vars, inv_vars, build_vars, solver_vars, utils_vars>>

\* while t < hour[0]: the test of the loop
inflow_rule_while ==
    /\ in_pc = "while"
    /\ in_pc' = IF in_t < in_params.hour[1] THEN "wrap" ELSE "read"
    /\ UNCHANGED <<in_params, in_h, in_i, in_t, in_reads>>
    /\ UNCHANGED <<head_vars, inv_vars, build_vars, solver_vars, utils_vars>>

\* t += int(24/dt): the body of the loop
inflow_rule_wrap ==
    /\ in_pc = "wrap"
    /\ in_t' = in_t + (24 \div in_params.dt)
    /\ in_pc' = "while"
    /\ UNCHANGED <<in_params, in_h, in_i, in_reads>>
    /\ UNCHANGED <<head_vars, inv_vars, build_vars, solver_vars, utils_vars>>

\* up_stream_outflow += model.outflow[ups, t, m, y]; a period outside the
\* hour set is not a key of model.outflow
inflow_rule_read ==
    /\ in_pc = "read"
    /\ in_reads' = Append(in_reads, in_t)
    /\ IF in_t \in SeqRange(in_params.hour)
       THEN in_pc' = "for" /\ in_i' = in_i + 1
       ELSE in_pc' = "KeyError" /\ UNCHANGED in_i
    /\ UNCHANGED <<in_params, in_h, in_t>>
    /\ UNCHANGED <<head_vars, inv_vars, build_vars, solver_vars, utils_vars>>

InitInflow ==
    /\ SolveInit({FALSE}, {1}, {Rat(1, 1000)})
    /\ InvestmentIdle
    /\ BuildIdle
    /\ SolverIdle
    /\ UtilsIdle
    /\ InflowInit

NextInflow ==
    \/ inflow_rule_for
    \/ inflow_rule_while
    \/ inflow_rule_wrap
    \/ inflow_rule_read

SpecInflow == InitInflow /\ [][NextInflow]_vars

\* the statements of inflow_rule are executed one after the other
SpecInflowFair == InitInflow /\ [][NextInflow]_vars /\ WF_vars(NextInflow)

\* C16: for every hour h of the hour set and every upstream link with any
\* non-negative delay, the period index at which the upstream outflow is read
\* lies within [first hour, last hour] of the hour set.
C16_UpstreamOutflowReadWithinHourSet ==
    \A i \in 1..Len(in_reads) :
        /\ in_params.hour[1] <= in_reads[i]
        /\ in_reads[i] <= LastOf(in_params.hour)

(***************************************************************************)
(* prepshot/solver.py : get_solver                                         *)
(***************************************************************************)
\* the keys of solver_map
solver_map == {"mosek", "gurobi", "highs", "copt"}

SolverNames == solver_map \cup {"cplex"}

SolverPaths == {"/opt/solver/lib", "/missing/lib"}

\* a dict with the entry `key` when value is not "absent"
WithOptional(d, key, value) ==
    IF value = "absent" THEN d ELSE d @@ (key :> value)

SolverInit ==
    /\ gs_pc = "call"
    /\ \E name \in SolverNames, inner \in SolverPaths \cup {"absent"},
          outer \in SolverPaths \cup {"absent"} :
           gs_params =
               WithOptional(
                   [solver |-> WithOptional([solver |-> name], "solver_path", inner)],
                   "solver_path", outer)
    /\ gs_library \in [autoload : BOOLEAN, loadable : {{"/opt/solver/lib"}}]
    /\ gs_result = "None"
    /\ library_loaded = FALSE

\* get_solver(params)
get_solver ==
    /\ gs_pc = "call"
    /\ gs_pc' = "done"
    /\ LET solver == gs_params.solver.solver
       IN  IF solver \notin solver_map
           THEN /\ gs_result' = "ValueError: Unsupported solver"
                /\ UNCHANGED library_loaded
           ELSE IF gs_library.autoload
           THEN /\ gs_result' = solver
                /\ library_loaded' = TRUE
           ELSE IF "solver_path" \notin DOMAIN gs_params
           THEN /\ gs_result' = "ValueError: Solver path not found"
                /\ UNCHANGED library_loaded
           ELSE IF "solver_path" \notin DOMAIN gs_params.solver
           THEN /\ gs_result' = "KeyError: solver_path"
                /\ UNCHANGED library_loaded
           ELSE IF gs_params.solver.solver_path \notin gs_library.loadable
           THEN /\ gs_result' = "ValueError: Failed to load library"
                /\ UNCHANGED library_loaded
           ELSE /\ gs_result' = solver
                /\ library_loaded' = TRUE
    /\ UNCHANGED <<gs_params, gs_library>>
    /\ UNCHANGED <<head_vars, inv_vars, build_vars, inflow_vars, utils_vars>>

InitSolver ==
    /\ SolveInit({FALSE}, {1}, {Rat(1, 1000)})
    /\ InvestmentIdle
    /\ BuildIdle
    /\ InflowIdle
    /\ UtilsIdle
    /\ SolverInit

NextSolver == get_solver

SpecSolver == InitSolver /\ [][NextSolver]_vars

ValueErrors ==
    {"ValueError: Unsupported solver", "ValueError: Solver path not found",
     "ValueError: Failed to load library"}

\* load_library would succeed on the configured solver path
ManuallyLoadable ==
    /\ "solver_path" \in DOMAIN gs_params.solver
    /\ gs_params.solver.solver_path \in gs_library.loadable

\* C19: get_solver ends with a ValueError, no model having been created or
\* solved, when the solver name is not one of mosek, gurobi, highs, copt, and
\* when the library can be loaded neither automatically nor manually; it
\* returns a solver module only after its library has been loaded.
C19_ValueErrorOrLoadedModule ==
    gs_pc = "done" =>
        /\ gs_params.solver.solver \notin solver_map =>
               gs_result \in ValueErrors
        /\ (gs_params.solver.solver \in solver_map /\ ~gs_library.autoload
                /\ ~ManuallyLoadable) => gs_result \in ValueErrors
        /\ gs_result \in solver_map => library_loaded
        /\ gs_result \notin solver_map =>
               (bmodel = <<>> /\ optimize_calls = 0)

(***************************************************************************)
(* prepshot/utils.py : validate_values, cost_factor                        *)
(***************************************************************************)
\* what a call of a function ends with
Return(v) == [raised |-> "None", value |-> v]

Raise(exception) == [raised |-> exception, value |-> NaN]

\* x ** n for an integer n
RECURSIVE RPow(_, _)
RPow(x, n) ==
    IF n = 0 THEN RInt(1)
    ELSE IF n < 0 THEN RDiv(RInt(1), RPow(x, -n))
    ELSE RMul(x, RPow(x, n - 1))

\* validate_values(*values): ValueError if a value is <= 0
validate_values(values) ==
    IF \E i \in 1..Len(values) : RLeq(values[i], RInt(0))
    THEN "ValueError"
    ELSE "None"

cost_factor(discount_rate, modeled_year, year_min, next_modeled_year) ==
    IF validate_values(<<discount_rate, RInt(modeled_year), RInt(year_min),
                         RInt(next_modeled_year)>>) # "None"
    THEN Raise("ValueError")
    ELSE IF next_modeled_year < modeled_year
    THEN Raise("ValueError")
    ELSE LET years_since_min == modeled_year - year_min
             years_to_next == next_modeled_year - modeled_year
             base == RAdd(RInt(1), discount_rate)
         IN  Return(RDiv(RSub(RInt(1), RPow(base, -years_to_next)),
                         RMul(discount_rate, RPow(base, years_since_min - 1))))

DiscountRates == {Rat(-1, 20), RInt(0), Rat(1, 20)}

CostYears == FirstYear..(FirstYear + YearSpan)

cost_factor_init ==
    /\ ut_pc = "call"
    /\ ut_args \in [fn : {"cost_factor"},
                    discount_rate : DiscountRates,
                    modeled_year : CostYears,
                    year_min : CostYears,
                    next_modeled_year : CostYears]
    /\ ut_result = Return(NaN)

cost_factor_call ==
    /\ ut_pc = "call"
    /\ ut_args.fn = "cost_factor"
    /\ ut_pc' = "done"
    /\ ut_result' = cost_factor(ut_args.discount_rate, ut_args.modeled_year,
                                ut_args.year_min, ut_args.next_modeled_year)
    /\ UNCHANGED ut_args
    /\ UNCHANGED <<head_vars, inv_vars, build_vars, inflow_vars, solver_vars>>

(***************************************************************************)
(* prepshot/utils.py : interpolate_z_by_q_or_s on a ZQ / ZV frame          *)
(***************************************************************************)
\* zqv[(zqv.name == int(name)) | (zqv.name == str(name))]: the rows of the
\* station, then x = zqv_temp.Q, or zqv_temp.V when the frame has no column
\* Q; the result is the sequence of the rows <<x, Z>>
SelectStation(name, zqv) ==
    LET x == IF "Q" \in DOMAIN zqv THEN zqv.Q ELSE zqv.V
        rows == [i \in 1..Len(zqv.name) |-> <<zqv.name[i], x[i], zqv.Z[i]>>]
        kept == SelectSeq(rows, LAMBDA r : r[1] = name)
    IN  [i \in 1..Len(kept) |-> <<kept[i][2], kept[i][3]>>]

\* f_zqv(qs): a scalar gives a scalar, an array gives an array
ApplyInterp(name, qs, scalar, zqv) ==
    LET tables == [n \in SeqRange(zqv.name) |-> SelectStation(n, zqv)]
        out == [i \in 1..Len(qs) |-> interpolate_z_by_q_or_s(name, qs[i], tables)]
    IN  IF scalar THEN out[1] ELSE out

\* frames of two stations: three rows for station 1, two for station 2
ZqvFrames ==
    {[c \in {"name", column, "Z"} |->
         IF c = "name" THEN <<1, 1, 1, 2, 2>>
         ELSE IF c = "Z" THEN z \o <<1, 5>>
         ELSE x \o <<0, 4>>] :
        column \in {"Q", "V"},
        x \in {<<0, 2, 3>>, <<0, 1, 3>>},
        z \in {<<0, 1, 2>>, <<3, 1, 2>>}}

QueryValues == (-1)..4

QueryArrays == {<<a, b>> : a \in {-1, 1, 4}, b \in {-1, 1, 4}}

interpolate_z_by_q_or_s_init ==
    /\ ut_pc = "call"
    /\ \/ ut_args \in [fn : {"interpolate_z_by_q_or_s"}, name : {1, 2},
                       qs : {<<q>> : q \in QueryValues}, scalar : {TRUE},
                       zqv : ZqvFrames]
       \/ ut_args \in [fn : {"interpolate_z_by_q_or_s"}, name : {1, 2},
                       qs : QueryArrays, scalar : {FALSE},
                       zqv : ZqvFrames]
    /\ ut_result = Return(NaN)

interpolate_z_by_q_or_s_call ==
    /\ ut_pc = "call"
    /\ ut_args.fn = "interpolate_z_by_q_or_s"
    /\ ut_pc' = "done"
    /\ ut_result' = Return(ApplyInterp(ut_args.name, ut_args.qs,
                                       ut_args.scalar, ut_args.zqv))
    /\ UNCHANGED ut_args
    /\ UNCHANGED <<head_vars, inv_vars, build_vars, inflow_vars, solver_vars>>

InitUtils ==
    /\ SolveInit({FALSE}, {1}, {Rat(1, 1000)})
    /\ InvestmentIdle
    /\ BuildIdle
    /\ InflowIdle
    /\ SolverIdle
    /\ (cost_factor_init \/ interpolate_z_by_q_or_s_init)

NextUtils ==
    \/ cost_factor_call
    \/ interpolate_z_by_q_or_s_call

SpecUtils == InitUtils /\ [][NextUtils]_vars

CostFactorDone == ut_pc = "done" /\ ut_args.fn = "cost_factor"

\* C21: cost_factor raises ValueError whenever the discount rate is not
\* positive, the next modeled year is earlier than the modeled year, or the
\* minimum year is later than the modeled year; for every other input it
\* returns a value without raising.
C21_ValueErrorIffInvalidInput ==
    CostFactorDone =>
        (ut_result.raised = "ValueError" <=>
            \/ RLeq(ut_args.discount_rate, RInt(0))
            \/ ut_args.next_modeled_year < ut_args.modeled_year
            \/ ut_args.year_min > ut_args.modeled_year)
        /\ (ut_result.raised \in {"None", "ValueError"})
        /\ (ut_result.raised = "None" => ~IsNaN(ut_result.value))

InterpolateDone == ut_pc = "done" /\ ut_args.fn = "interpolate_z_by_q_or_s"

\* the rows <<abscissa, Z>> of the station asked for
StationTable ==
    LET f == ut_args.zqv
        rows == {i \in 1..Len(f.name) : f.name[i] = ut_args.name}
        nth(k) == CHOOSE i \in rows : Cardinality({j \in rows : j < i}) = k - 1
    IN  [k \in 1..Cardinality(rows) |->
            <<(IF "Q" \in DOMAIN f THEN f.Q ELSE f.V)[nth(k)], f.Z[nth(k)]>>]

\* the point of abscissa q on the line through the rows a and b
OnLine(a, b, q) ==
    RAdd(RInt(a[2]), RDiv(RInt((b[2] - a[2]) * (q - a[1])), RInt(b[1] - a[1])))

\* piecewise-linear interpolation of the table, the outer segments being
\* prolonged beyond the first and the last abscissa
PiecewiseLinear(table, q) ==
    LET n == Len(table)
    IN  IF q < table[1][1] THEN OnLine(table[1], table[2], q)
        ELSE IF q > table[n][1] THEN OnLine(table[n - 1], table[n], q)
        ELSE LET i == CHOOSE j \in 1..(n - 1) :
                          table[j][1] <= q /\ q <= table[j + 1][1]
             IN  OnLine(table[i], table[i + 1], q)

\* C22: interpolate_z_by_q_or_s returns, for each query value (scalar or
\* array), the piecewise-linear interpolation of Z over the table of the
\* named station with column Q (V when there is no Q) as abscissa, and
\* prolongs the nearest segment for a query below or above the table.
C22_PiecewiseLinearWithExtrapolation ==
    InterpolateDone =>
        /\ ut_result.raised = "None"
        /\ IF ut_args.scalar
           THEN ut_result.value = PiecewiseLinear(StationTable, ut_args.qs[1])
           ELSE ut_result.value =
                    [i \in 1..Len(ut_args.qs) |->
                        PiecewiseLinear(StationTable, ut_args.qs[i])]

\* an array query with a value below the table whose result is not the Z of
\* the first row, on a frame with the column V
C22_Witness ==
    /\ InterpolateDone
    /\ ~ut_args.scalar
    /\ "V" \in DOMAIN ut_args.zqv
    /\ ut_args.qs[1] < StationTable[1][1]
    /\ ut_result.value[1] # RInt(StationTable[1][2])
    /\ ut_args.qs[2] > StationTable[Len(StationTable)][1]
    /\ ut_result.value[2] # RInt(StationTable[Len(StationTable)][2])

(***************************************************************************)
(* Claims on the new-build window (SpecInvestment).                        *)
(***************************************************************************)
\* the modeled years y_pre with max(y_start, y - T_e) <= y_pre <= y
WindowYears(y, te) ==
    LET y_start == inv_params.year[1]
        T == inv_params.lifetime[<<te, y>>]
        from == IF y_start > y - T THEN y_start ELSE y - T
    IN  {y_pre \in SeqRange(inv_params.year) : from <= y_pre /\ y_pre <= y}

\* C23: the new-build capacity counted in the existing capacity of year y is
\* that of exactly the modeled years y_pre with
\* max(y_start, y - T_e) <= y_pre <= y, the year y - T_e included.
C23_NewBuildWindowIsInclusive ==
    \A t \in DOMAIN cap_existing :
        SeqRange(cap_existing[t].new_tech) =
            {<<"cap_newtech", y_pre, t[2], t[3]>> :
                y_pre \in WindowYears(t[1], t[3])}

(***************************************************************************)
(* Claims on the existing capacity of the lines (SpecBuild).               *)
(***************************************************************************)
\* C24: the existing line capacity of a corridor in year y is subject to
\* lifetime retirement: the initial line capacity of the age cohorts 1
\* through T_line - (y - y_start) (nothing once that number is <= 0) plus
\* the new-line capacity built in the modeled years from
\* max(y_start, y - T_line) through y.
C24_LineCapacityRetiresAfterLifetime ==
    Built("cap_lines_existing") =>
        \A k \in DOMAIN bmodel.cap_lines_existing :
            LET y == k[1]
                e == bmodel.cap_lines_existing[k]
                T_line == bparams.transmission_line_lifetime[<<k[2], k[3]>>]
                y_start == bparams.year[1]
                from == IF y_start > y - T_line THEN y_start ELSE y - T_line
            IN  /\ T_line - (y - y_start) <= 0 =>
                       e.remaining_capacity_line = RInt(0)
                /\ SeqRange(e.new_capacity_line) =
                       {<<"cap_newline", yy, k[2], k[3]>> :
                           yy \in {yp \in SeqRange(bparams.year) :
                                       from <= yp /\ yp <= y}}

(***************************************************************************)
(* Claims on the total outflow of a reservoir (SpecBuild).                 *)
(***************************************************************************)
\* the variables summed in the expression model.outflow[k]
OutflowParts(k) == {bmodel.outflow[k][f] : f \in DOMAIN bmodel.outflow[k]}

\* C25: the total outflow of each reservoir - the quantity bounded by the
\* minimum and maximum outflow of the station and routed into the inflow of
\* the downstream stations - is the sum of three parts: water withdrawal,
\* generation flow and spillage flow.
C25_OutflowIsWithdrawalPlusGenerationPlusSpillage ==
    HydrologyBuilt =>
        \A k \in SHMY :
            /\ OutflowParts(k) = {<<"withdraw", k[1], k[2], k[3], k[4]>>,
                                  <<"genflow", k[1], k[2], k[3], k[4]>>,
                                  <<"spillflow", k[1], k[2], k[3], k[4]>>}
            /\ bmodel.outflow_low_bound_cons[k].lhs.variable =
                   <<"outflow", k[1], k[2], k[3], k[4]>>
            /\ bmodel.outflow_up_bound_cons[k].lhs.variable =
                   <<"outflow", k[1], k[2], k[3], k[4]>>

(***************************************************************************)
(* Claims on the wrap-around of inflow_rule (SpecInflow, SpecInflowFair).  *)
(***************************************************************************)
\* the delay of the i-th upstream link, in periods
DelayPeriods(i) == in_params.up_streams[i] \div in_params.dt

\* C26: for a horizon of N periods with first hour f, the period at which
\* the upstream outflow is read for hour h and a delay of d periods is
\* ((h - d - f) mod N) + f, for every d >= 0 and every horizon length N.
C26_ReadPeriodWrapsModuloHorizon ==
    \A i \in 1..Len(in_reads) :
        LET f == in_params.hour[1]
            N == Len(in_params.hour)
        IN  in_reads[i] = ((in_h - DelayPeriods(i) - f) % N) + f

\* C28: inflow_rule terminates for every hour of the hour set, every
\* positive time step dt (dt > 24 included) and every non-negative delay:
\* it eventually returns, or ends with the exception raised by a read.
C28_InflowRuleTerminates == <>(in_pc \in {"return", "KeyError"})

(***************************************************************************)
(* Claims on the heads of a run of run_model_iteration (Spec).             *)
(***************************************************************************)
\* every entry of the head frame is a number >= 0 (not NaN)
DefinedNonNegative(frame) ==
    \A s \in DOMAIN frame : \A c \in DOMAIN frame[s] :
        RLeq(RInt(0), frame[s][c])

\* C27: for every combination of the max_iterations argument,
\* params['iteration_number'] and error threshold, with static heads >= 0
\* and every solve OPTIMAL, every head that run_model_iteration pushes into
\* a hydropower-output coefficient is a defined number >= 0, and the error
\* and the damped update are computed only from a new-head table filled
\* from the latest solution.
C27_HeadsAreDefinedForEveryIterationSetting ==
    (HydroRun /\ all_optimal) =>
        /\ pc \in {"setcoef", "optimize"} => DefinedNonNegative(old_waterhead)
        /\ (pc = "evaluate" /\ max_iterations > 1) =>
               (new_waterhead = h_new /\ DefinedNonNegative(new_waterhead))

(***************************************************************************)
(* prepshot/model.py, prepshot/rules.py : the transmission corridors       *)
(***************************************************************************)
\* para['transmission']: a value or NaN (empty cell) for every pair of zones
TransmissionTables == [Pairs(SeqRange(zone)) -> {NaN, RInt(0), RInt(100)}]

\* para['transmission_line_existing_capacity']: the non-empty cells
ExistingCapacity(transmission) ==
    [p \in {q \in DOMAIN transmission : ~IsNaN(transmission[q])} |->
        transmission[p]]

\* model.year_zone_zone_tuples
year_zone_zone_tuples ==
    {k \in SeqRange(bparams.year) \X SeqRange(zone) \X SeqRange(zone) :
        k[2] # k[3] /\ ~IsNaN(bparams.transmission[<<k[2], k[3]>>])}

\* model.hour_month_year_zone_zone_tuples
hour_month_year_zone_zone_tuples ==
    {<<h, m, k[1], k[2], k[3]>> : h \in SeqRange(bparams.hour),
                                  m \in SeqRange(month),
                                  k \in bmodel.year_zone_zone_tuples}

\* create_model: the sets of valid corridors
create_model_tuples ==
    /\ NotBuilt("tuples")
    /\ constructed' = constructed \cup {"tuples"}
    /\ bmodel' = bmodel @@
           [year_zone_zone_tuples |-> year_zone_zone_tuples]
    /\ UNCHANGED <<bparams, raised>>
    /\ UNCHANGED <<head_vars, inv_vars, inflow_vars, solver_vars, utils_vars>>

\* create_model: the transmission variables, indexed by the valid corridors
create_model_variables ==
    /\ NotBuilt("variables")
    /\ Built("year_zone_zone_tuples")
    /\ constructed' = constructed \cup {"variables"}
    /\ bmodel' = bmodel @@
           [hour_month_year_zone_zone_tuples |-> hour_month_year_zone_zone_tuples,
            cap_newline |-> bmodel.year_zone_zone_tuples,
            cap_lines_existing |-> bmodel.year_zone_zone_tuples,
            trans_export |-> hour_month_year_zone_zone_tuples,
            trans_import |-> hour_month_year_zone_zone_tuples]
    /\ UNCHANGED <<bparams, raised>>
    /\ UNCHANGED <<head_vars, inv_vars, inflow_vars, solver_vars, utils_vars>>

\* model.<name>[index] is a variable of the model
VarDefined(ref) == ref.index \in bmodel[ref.name]

\* Constraint(keys, rule=rule): the rule of every key; a reference to a
\* variable outside the index set of its family raises KeyError
DeclareConstraint(name, keys, rule(_)) ==
    /\ NotBuilt(name)
    /\ Built("cap_newline")
    /\ IF \A k \in keys : \A ref \in rule(k) : VarDefined(ref)
       THEN /\ bmodel' = bmodel @@ [c \in {name} |-> [k \in keys |-> rule(k)]]
            /\ constructed' = constructed \cup {name}
            /\ UNCHANGED raised
       ELSE /\ raised' = "KeyError"
            /\ UNCHANGED <<bmodel, constructed>>
    /\ UNCHANGED bparams
    /\ UNCHANGED <<head_vars, inv_vars, inflow_vars, solver_vars, utils_vars>>

\* model.py fix_cost_rule: cap_lines_existing[y, z, z1] for y, z1, z in
\* year_zone_zone_tuples
model_fix_cost_rule(k) ==
    {[name |-> "cap_lines_existing", index |-> <<t[1], t[3], t[2]>>] :
        t \in bmodel.year_zone_zone_tuples}

\* model.py power_balance_rule: trans_import[h, m, y, z1, z] and
\* trans_export[h, m, y, z, z1] for the z1 != z with a value of
\* para['transmission'][z, z1]
model_power_balance_rule(k) ==
    LET h == k[1]
        m == k[2]
        y == k[3]
        z == k[4]
        linked == {z1 \in SeqRange(zone) :
                      z # z1 /\ ~IsNaN(bparams.transmission[<<z, z1>>])}
    IN  {[name |-> "trans_import", index |-> <<h, m, y, z1, z>>] : z1 \in linked}
        \cup
        {[name |-> "trans_export", index |-> <<h, m, y, z, z1>>] : z1 \in linked}

\* model.py trans_physical_rule: cap_newline[y, z, z1] == cap_newline[y, z1, z]
model_trans_physical_rule(k) ==
    {[name |-> "cap_newline", index |-> <<k[1], k[2], k[3]>>],
     [name |-> "cap_newline", index |-> <<k[1], k[3], k[2]>>]}

\* rules.py RuleContainer.fix_cost_rule: the same sum, for y, z1, z in
\* year_zone_zone_tuples
RuleContainer_fix_cost_rule(k) ==
    {[name |-> "cap_lines_existing", index |-> <<t[1], t[3], t[2]>>] :
        t \in bmodel.year_zone_zone_tuples}

\* rules.py RuleContainer.power_balance_rule: the z1 with (z, z1) in lc.keys()
RuleContainer_power_balance_rule(k) ==
    LET h == k[1]
        m == k[2]
        y == k[3]
        z == k[4]
        lc == bparams.transmission_line_existing_capacity
        linked == {z1 \in SeqRange(zone) : <<z, z1>> \in DOMAIN lc}
    IN  {[name |-> "trans_import", index |-> <<h, m, y, z1, z>>] : z1 \in linked}
        \cup
        {[name |-> "trans_export", index |-> <<h, m, y, z, z1>>] : z1 \in linked}

fix_cost_cons ==
    DeclareConstraint("fix_cost_cons", {<<>>}, model_fix_cost_rule)

power_balance_cons ==
    DeclareConstraint("power_balance_cons", HMYZ, model_power_balance_rule)

trans_physical_cons ==
    DeclareConstraint("trans_physical_cons", bmodel.year_zone_zone_tuples,
                      model_trans_physical_rule)

RuleContainer_fix_cost ==
    DeclareConstraint("RuleContainer.fix_cost_rule", {<<>>},
                      RuleContainer_fix_cost_rule)

RuleContainer_power_balance ==
    DeclareConstraint("RuleContainer.power_balance_rule", HMYZ,
                      RuleContainer_power_balance_rule)

InitCorridor ==
    /\ SolveInit({FALSE}, {1}, {Rat(1, 1000)})
    /\ InvestmentIdle
    /\ InflowIdle
    /\ SolverIdle
    /\ UtilsIdle
    /\ \E transmission \in TransmissionTables :
           bparams = [year |-> BuildYear,
                      hour |-> BuildHour,
                      transmission |-> transmission,
                      transmission_line_existing_capacity |->
                          ExistingCapacity(transmission)]
    /\ bmodel = <<>>
    /\ constructed = {}
    /\ raised = "None"

NextCorridor ==
    \/ create_model_tuples
    \/ create_model_variables
    \/ fix_cost_cons
    \/ power_balance_cons
    \/ trans_physical_cons
    \/ RuleContainer_fix_cost
    \/ RuleContainer_power_balance

SpecCorridor == InitCorridor /\ [][NextCorridor]_vars

\* the corridors of the variables a rule refers to
CorridorsOf(refs) ==
    {<<ref.index[Len(ref.index) - 1], ref.index[Len(ref.index)]>> : ref \in refs}

\* the valid corridor set
ValidCorridors == {<<k[2], k[3]>> : k \in bmodel.year_zone_zone_tuples}

\* the import term of a power balance
ImportTerm(refs) == {ref \in refs : ref.name = "trans_import"}

\* C29: the symmetry constraint, the fixed line cost and the import term of
\* the power balance of a corridor (z, z1) of the valid corridor set refer
\* only to transmission variables of corridors of the valid corridor set,
\* also when the existing-capacity table declares one direction of a pair
\* only; building them raises no KeyError.
C29_RulesReferenceValidCorridorsOnly ==
    Built("cap_newline") =>
        /\ raised # "KeyError"
        /\ \A k \in bmodel.year_zone_zone_tuples :
               CorridorsOf(model_trans_physical_rule(k)) \subseteq ValidCorridors
        /\ CorridorsOf(model_fix_cost_rule(<<>>)) \subseteq ValidCorridors
        /\ CorridorsOf(RuleContainer_fix_cost_rule(<<>>)) \subseteq ValidCorridors
        /\ \A k \in HMYZ :
               /\ CorridorsOf(ImportTerm(model_power_balance_rule(k)))
                      \subseteq ValidCorridors
               /\ CorridorsOf(ImportTerm(RuleContainer_power_balance_rule(k)))
                      \subseteq ValidCorridors

(***************************************************************************)
(* Claim on the manual loading of the solver library (SpecSolver).         *)
(***************************************************************************)
\* a solver path is configured in the solver settings
PathConfigured == "solver_path" \in DOMAIN gs_params.solver

\* C30: when automatic loading of the library of a supported solver fails
\* and params['solver']['solver_path'] is configured, get_solver loads the
\* library from that path and returns the solver module (a path that cannot
\* be loaded ends with the failed-load ValueError); the missing-path
\* ValueError is raised only when no solver path is configured there.
C30_ConfiguredSolverPathIsUsed ==
    (gs_pc = "done" /\ gs_params.solver.solver \in solver_map
         /\ ~gs_library.autoload) =>
        /\ ManuallyLoadable =>
               (gs_result = gs_params.solver.solver /\ library_loaded)
        /\ (PathConfigured /\ ~ManuallyLoadable) =>
               gs_result = "ValueError: Failed to load library"
        /\ gs_result = "ValueError: Solver path not found" => ~PathConfigured

====
